---- MODULE Spec2Model ----
(***************************************************************************)
(* Model of the gemini-vector-search single-page client.                   *)
(*                                                                         *)
(*   - AuthProvider (context/AuthContext): login, logout, mount effect,    *)
(*     and the credential helpers of utils/authUtils.js;                   *)
(*   - QueryAssistant (pages/QueryAssistant, second revision): the         *)
(*     message list, the four settings, the save effects, handleSend,      *)
(*     clearConversation, exportConversations and handleFileChange;        *)
(*   - the HTTP requests the client issues, with the headers it sets.      *)
(*                                                                         *)
(* JavaScript values of mixed type are modelled by records and by          *)
(* reserved strings (Undefined, Absent, FunctionValue).                    *)
(***************************************************************************)
EXTENDS Integers, Sequences, FiniteSets, TLC

VARIABLES
    \* ---- build environment ------------------------------------------
    env,              \* import.meta.env.VITE_AUTH_CREDENTIALS
    lang,             \* current i18n language
    \* ---- AuthProvider state -----------------------------------------
    user,             \* useState(null)
    authLoading,      \* useState(true)
    error,            \* useState('')
    \* ---- localStorage -----------------------------------------------
    lsUser,           \* key 'user'
    lsApiUsername,    \* key 'api_username'
    lsApiPassword,    \* key 'api_password'
    lsConversations,  \* key 'assistantConversations'
    lsSettings,       \* key 'assistantSettings'
    \* ---- QueryAssistant state ---------------------------------------
    mounted,          \* the component's mount effects have run
    loading,          \* useState(false)
    prompt,           \* useState('')
    conversations,    \* useState([])
    settings,         \* selectedSource, useContext, maxContextDocs, forceUseDocuments
    errorMessage,     \* useState('')
    importModalVisible,
    savePending,      \* the save-conversations effect is scheduled for the committed render
    inFlight,         \* integration requests awaiting their response
    exportedFile,     \* the file written by the last exportConversations
    exportedState,    \* the message list and settings that export was taken from
    clock,            \* source of new Date().toISOString()
    \* ---- observation ------------------------------------------------
    lastRequest,      \* the last HTTP request issued, with its credentials
    lastCall,         \* the last handler that ran: its arguments, its outcome and
                      \* the transient notice (antd message.*) it showed
    \* ---- services/cacheService.js and services/apiService.js ---------
    cache,            \* const cache = {}: key -> {data, timestamp, ttl}
    nowMs,            \* Date.now(), in milliseconds
    server,           \* the payload the server currently answers per URL
    pendingGets,      \* wrapper get calls awaiting apiClient.get
    lastWrapper,      \* the last call of the wrapper, with what it returned
    \* ---- run.sh -----------------------------------------------------
    sec,              \* the wall clock, in seconds
    tool,             \* which of lsof / netstat the host has
    service,          \* the service the behaviour follows
    dirExists,        \* [ -d "$FRONTEND_DIR" ]
    alive,            \* the pids of the live processes
    starting,         \* launched services that have not bound their port yet
    nextPid,          \* the pid the next launched process gets
    portOwner,        \* the pid bound to the service's port, or NoPid
    pidFile,          \* the pid in pids/<service>.pid, or NoPid
    sidecar,          \* the log recorded in pids/<service>.pid.log, or NoLog
    logs,             \* logs/<service>/<service>_<timestamp>.log, by timestamp
    currentLink,      \* the log that logs/<service>_current.log names, or NoLog
    linkPath,         \* how the link names it: by absolute or by relative path
    runs,             \* the invocations of the script
    invoked,          \* how many times the script has been invoked
    \* ---- the API test runner ----------------------------------------
    runner,           \* the run of the test runner script: its position,
                      \* what its commands returned, its exit status
    \* ---- the database ------------------------------------------------
    documents,              \* the rows of documents
    document_chunks,        \* the rows of document_chunks
    documents_id_seq,       \* last value of the sequence of documents.id
    document_chunks_id_seq, \* last value of the sequence of document_chunks.id
    \* ---- pages/UploadDocument (PDF tab) ------------------------------
    useIntelligentChunking, \* useState(true)
    uploading,              \* useState(false)
    formStore,              \* the values the antd form instance holds
    uploadData,             \* uploadProps.data as built by the last render
    lastUpload,             \* the last upload request, with the controls at that time
    \* ---- the legacy client (framework-free page) ---------------------
    gemini_credentials,     \* localStorage key 'gemini_credentials'
    legacyView,             \* which of auth-container / app-container is shown
    legacyLast,             \* the last function of the legacy client that ran
    \* ---- pages/DocumentList.jsx ---------------------------------------
    listRows,               \* useState([]) named documents: the rows of the table
    pagination,             \* useState({current: 1, pageSize: 20, total: 0, ...})
    searchTerm,             \* useState('')
    listLoading,            \* useState(true) named loading
    listRequests,           \* GET /api/v1/documents calls awaiting their response
    deleteRequests,         \* DELETE /api/v1/documents/{id} calls awaiting theirs
    stored,                 \* the server's documents, counted by source
    lastList                \* the list request issued last and how it ended, and
                            \* the last notice (antd message.*) of the page

authVars == <<user, authLoading, error, lsUser, lsApiUsername, lsApiPassword>>
asstVars == <<lsConversations, lsSettings, mounted, loading, prompt, conversations,
              settings, errorMessage, importModalVisible, savePending, inFlight,
              exportedFile, exportedState, clock>>
clientVars == <<env, lang, user, authLoading, error, lsUser, lsApiUsername,
                lsApiPassword, lsConversations, lsSettings, mounted, loading, prompt,
                conversations, settings, errorMessage, importModalVisible, savePending,
                inFlight, exportedFile, exportedState, clock, lastRequest, lastCall>>
cacheVars == <<cache, nowMs, server, pendingGets, lastWrapper>>
\* everything outside the single-page client's pages
svcVars == <<sec, tool, service, dirExists, alive, starting, nextPid, portOwner,
             pidFile, sidecar, logs, currentLink, linkPath, runs, invoked>>
dbVars == <<documents, document_chunks, documents_id_seq, document_chunks_id_seq>>
uploadVars == <<useIntelligentChunking, uploading, formStore, uploadData, lastUpload>>
legacyVars == <<gemini_credentials, legacyView, legacyLast>>
listVars == <<listRows, pagination, searchTerm, listLoading, listRequests,
              deleteRequests, stored, lastList>>
extVars == <<cacheVars, svcVars, runner, dbVars, uploadVars, legacyVars, listVars>>
\* what the cache and the HTTP wrapper leave alone
cacheRest == <<clientVars, svcVars, runner, dbVars, uploadVars, legacyVars, listVars>>
\* what the control script leaves alone
svcRest == <<clientVars, cacheVars, runner, dbVars, uploadVars, legacyVars, listVars>>
\* what the test runner leaves alone
runnerRest == <<clientVars, cacheVars, svcVars, dbVars, uploadVars, legacyVars, listVars>>
\* what the database statements leave alone
dbRest == <<clientVars, cacheVars, svcVars, runner, uploadVars, legacyVars, listVars>>
\* what the upload page leaves alone
uploadRest == <<clientVars, cacheVars, svcVars, runner, dbVars, legacyVars, listVars>>
\* what the legacy client leaves alone
legacyRest == <<clientVars, cacheVars, svcVars, runner, dbVars, uploadVars, listVars>>
\* what the document list leaves alone
listRest == <<clientVars, cacheVars, svcVars, runner, dbVars, uploadVars, legacyVars>>
vars == <<clientVars, extVars>>

(***************************************************************************)
(* JavaScript values                                                       *)
(***************************************************************************)
Undefined == "<undefined>"
Absent == "<absent>"              \* localStorage.getItem(...) === null
FunctionValue == "<function>"     \* a property inherited from Object.prototype

\* own property names of Object.prototype that the inputs exercise
PrototypeNames == {"constructor", "toString"}

(***************************************************************************)
(* constants/index.js                                                      *)
(***************************************************************************)
STORAGE_KEYS == [USER |-> "user", API_USERNAME |-> "api_username",
                 API_PASSWORD |-> "api_password"]

DEFAULTS_CREDENTIALS ==
    [admin |-> "Pa$$w0rd", user1 |-> "123456", user2 |-> "password123"]

(***************************************************************************)
(* Inputs                                                                  *)
(***************************************************************************)
EnvMap == [admin |-> "s3cret", bob |-> "hunter2"]

\* values of VITE_AUTH_CREDENTIALS: unset, a JSON map, the JSON text null,
\* a JavaScript object literal that is not JSON, and text that is neither
EnvValues ==
    { [kind |-> "absent"],
      [kind |-> "json", map |-> EnvMap],
      [kind |-> "jsonnull"],
      [kind |-> "jsliteral", map |-> EnvMap],
      [kind |-> "garbage"] }

Usernames == {"admin", "bob", "ghost", "constructor"}
Passwords == {"Pa$$w0rd", "s3cret", "wrong", Undefined}
Languages == {"zh", "en"}

(***************************************************************************)
(* i18n: t('auth.invalidCredentials')                                      *)
(***************************************************************************)
t_invalidCredentials(l) ==
    IF l = "en" THEN "Invalid username or password" ELSE "yong hu ming huo mi ma cuo wu"

(***************************************************************************)
(* utils/authUtils.js                                                      *)
(***************************************************************************)
\* JSON.parse(credentialsStr): the parsed value, or a SyntaxError
JsonParseEnv(e) ==
    CASE e.kind = "json"     -> [ok |-> TRUE, kind |-> "object", map |-> e.map]
      [] e.kind = "jsonnull" -> [ok |-> TRUE, kind |-> "null"]
      [] OTHER               -> [ok |-> FALSE]

\* eval(`(${credentialsStr})`): the value, or an exception
EvalEnv(e) ==
    CASE e.kind = "jsliteral" -> [ok |-> TRUE, kind |-> "object", map |-> e.map]
      [] e.kind = "json"      -> [ok |-> TRUE, kind |-> "object", map |-> e.map]
      [] e.kind = "jsonnull"  -> [ok |-> TRUE, kind |-> "null"]
      [] OTHER                -> [ok |-> FALSE]

getCredentialsFromEnv(e) ==
    IF e.kind # "absent"
    THEN IF JsonParseEnv(e).ok
         THEN JsonParseEnv(e)
         ELSE IF EvalEnv(e).ok
              THEN EvalEnv(e)
              ELSE [ok |-> TRUE, kind |-> "object", map |-> DEFAULTS_CREDENTIALS]
    ELSE [ok |-> TRUE, kind |-> "object", map |-> DEFAULTS_CREDENTIALS]

\* the own keys of the resolved map
CredentialKeys(e) ==
    IF getCredentialsFromEnv(e).kind = "object"
    THEN DOMAIN getCredentialsFromEnv(e).map
    ELSE {}

\* credentials[username] on an object
Lookup(m, username) ==
    IF username \in DOMAIN m THEN m[username]
    ELSE IF username \in PrototypeNames THEN FunctionValue
    ELSE Undefined

\* credentials[username] === password; "throws" when credentials is null
validateCredentialsWrongPasswordAccepted(e, username, password) ==
    IF getCredentialsFromEnv(e).kind # "object" THEN "throws"
    ELSE IF username \in DOMAIN getCredentialsFromEnv(e).map THEN "true" ELSE "false"

validateCredentials(e, username, password) ==
    IF getCredentialsFromEnv(e).kind # "object" THEN "throws"
    ELSE IF Lookup(getCredentialsFromEnv(e).map, username) = password
         THEN "true" ELSE "false"

(***************************************************************************)
(* JSON.stringify / JSON.parse of the user object {username}               *)
(***************************************************************************)
StringifyUser(u) == "{\"username\":\"" \o u.username \o "\"}"

ParseUser(s) ==
    IF \E n \in Usernames : s = StringifyUser([username |-> n])
    THEN [ok |-> TRUE,
          value |-> [username |-> CHOOSE n \in Usernames : s = StringifyUser([username |-> n])]]
    ELSE [ok |-> FALSE]

NullUser == [null |-> TRUE]


(***************************************************************************)
(* HTTP requests.  Every call site builds its request configuration as     *)
(* written below; none of them sets an Authorization header or the axios   *)
(* `auth` option, and no request interceptor is installed.                 *)
(***************************************************************************)
NoCredentials == [present |-> FALSE]
BasicCredentials(username, password) ==
    [present |-> TRUE, username |-> username, password |-> password]

NoRequest == [issued |-> FALSE]

\* the credentials with which a call site sends its request
RequestCredentials(site) == NoCredentials

\* the timeout of a call site's request configuration: apiClient is created
\* with timeout 30000; the pages call axios.get/post/delete on the default
\* instance and pass no timeout
WrapperSites == {"apiService.get", "apiService.post", "apiService.put",
                 "apiService.del", "apiService.uploadFile"}
NoTimeout == [set |-> FALSE]
ApiClientTimeout == [set |-> TRUE, ms |-> 30000]
RequestTimeout(site) == IF site \in WrapperSites THEN ApiClientTimeout ELSE NoTimeout

Request(site, method, url) ==
    [issued |-> TRUE, site |-> site, method |-> method, url |-> url,
     credentials |-> RequestCredentials(site),
     timeout |-> RequestTimeout(site),
     storedUsername |-> lsApiUsername, storedPassword |-> lsApiPassword]

\* the call sites of the pages and of the HTTP wrapper
DocumentListCallSites ==
    { [site |-> "DocumentList.fetchDocuments", method |-> "GET", url |-> "/api/v1/documents"],
      [site |-> "DocumentList.handleDelete", method |-> "DELETE", url |-> "/api/v1/documents/:id"] }
UploadCallSites ==
    { [site |-> "UploadDocument.upload", method |-> "POST", url |-> "/api/v1/upload-pdf"] }
AssistantCallSites ==
    { [site |-> "QueryAssistant.handleSend", method |-> "POST", url |-> "/api/v1/integration"] }
ApiServiceCallSites ==
    { [site |-> "apiService.get", method |-> "GET", url |-> "*"],
      [site |-> "apiService.post", method |-> "POST", url |-> "*"],
      [site |-> "apiService.put", method |-> "PUT", url |-> "*"],
      [site |-> "apiService.del", method |-> "DELETE", url |-> "*"] }
CallSites ==
    DocumentListCallSites \cup UploadCallSites \cup AssistantCallSites
        \cup ApiServiceCallSites

(***************************************************************************)
(* AuthProvider                                                            *)
(***************************************************************************)
NoCall == [op |-> "none"]

\* useEffect(() => {...}, []) of AuthProvider
AuthMount ==
    /\ authLoading = TRUE
    /\ IF lsUser # Absent
       THEN IF ParseUser(lsUser).ok
            THEN /\ user' = ParseUser(lsUser).value
                 /\ lsUser' = lsUser
            ELSE /\ user' = user
                 /\ lsUser' = Absent
       ELSE UNCHANGED <<user, lsUser>>
    /\ authLoading' = FALSE
    /\ lastCall' = [op |-> "authMount"]
    /\ UNCHANGED <<env, lang, error, lsApiUsername, lsApiPassword, lastRequest>>
    /\ UNCHANGED asstVars
    /\ UNCHANGED extVars

\* the error state login leaves: setError('') first, then the localized
\* message when validation fails
LoginErrorNotCleared(r, l) == IF r = "false" THEN t_invalidCredentials(l) ELSE error

LoginError(r, l) == IF r = "false" THEN t_invalidCredentials(l) ELSE ""

login(username, password) ==
    /\ authLoading = FALSE
    /\ LET r == validateCredentials(env, username, password) IN
       /\ lastCall' = [op |-> "login", username |-> username,
                       password |-> password, result |-> r, errorBefore |-> error]
       /\ CASE r = "true" ->
                 /\ error' = LoginError(r, lang)
                 /\ user' = [username |-> username]
                 /\ lsUser' = StringifyUser([username |-> username])
                 /\ lsApiUsername' = username
                 /\ lsApiPassword' = password
            [] r = "false" ->
                 /\ error' = LoginError(r, lang)
                 /\ UNCHANGED <<user, lsUser, lsApiUsername, lsApiPassword>>
            [] OTHER ->
                 \* validateCredentials threw after setError('')
                 /\ error' = LoginError(r, lang)
                 /\ UNCHANGED <<user, lsUser, lsApiUsername, lsApiPassword>>
    /\ UNCHANGED <<env, lang, authLoading, lastRequest>>
    /\ UNCHANGED asstVars
    /\ UNCHANGED extVars

\* a logout that forgets the two API keys
logoutKeepsApiKeys ==
    /\ authLoading = FALSE
    /\ user' = NullUser
    /\ lsUser' = Absent
    /\ lastCall' = [op |-> "logout"]
    /\ UNCHANGED <<env, lang, authLoading, error, lsApiUsername, lsApiPassword,
                   lastRequest>>
    /\ UNCHANGED asstVars
    /\ UNCHANGED extVars

logout ==
    /\ authLoading = FALSE
    /\ user' = NullUser
    /\ lsUser' = Absent
    /\ lsApiUsername' = Absent
    /\ lsApiPassword' = Absent
    /\ lastCall' = [op |-> "logout"]
    /\ UNCHANGED <<env, lang, authLoading, error, lastRequest>>
    /\ UNCHANGED asstVars
    /\ UNCHANGED extVars

\* LanguageSwitcher.handleChange
changeLanguage(value) ==
    /\ lang # value
    /\ lang' = value
    /\ lastCall' = [op |-> "changeLanguage"]
    /\ UNCHANGED <<env, lastRequest>>
    /\ UNCHANGED authVars
    /\ UNCHANGED asstVars
    /\ UNCHANGED extVars

\* a page behind PrivateRoute issues a request from one of the call sites
IssueRequest(c) ==
    /\ authLoading = FALSE
    /\ lastRequest' = Request(c.site, c.method, c.url)
    /\ lastCall' = [op |-> "request", site |-> c.site]
    /\ UNCHANGED <<env, lang>>
    /\ UNCHANGED authVars
    /\ UNCHANGED asstVars
    /\ UNCHANGED extVars


(***************************************************************************)
(* QueryAssistant: values                                                  *)
(***************************************************************************)
HistoryCap == 50        \* conversations.slice(-50)
ReducedCapAsHistoryCap == HistoryCap
ReducedCap == 10        \* conversations.slice(-10)

\* bounds of the model
MaxClock == 4           \* new Date() is read at most this many times
BigImportLen == 52      \* length of the long imported conversation

\* Array.prototype.slice(-n)
SliceFirst(list, n) ==
    IF Len(list) > n THEN SubSeq(list, 1, n) ELSE list

SliceLast(list, n) ==
    IF Len(list) > n THEN SubSeq(list, Len(list) - n + 1, Len(list)) ELSE list

\* String.prototype.trim on the prompts the model types
PromptTexts == {"", "  ", "q"}
Trim(text) == IF text = "  " THEN "" ELSE text

\* JavaScript truthiness of a string and of a number
TruthyString(v) == v # ""
TruthyNumber(v) == v # 0

DefaultSettings ==
    [selectedSource |-> "all", useContext |-> TRUE,
     maxContextDocs |-> 5, forceUseDocuments |-> FALSE]

Sources == {"a.pdf"}                 \* response.data.sources
SourceChoices == {"all"} \cup Sources
MaxDocsChoices == {3, 5}             \* two of the options [3, 5, 10, 15, 20]

\* JSON text and values.  The stored and exported values are built from
\* strings, numbers, booleans, arrays and plain objects only, on which
\* JSON.parse inverts JSON.stringify; text and value stay distinct.
JsonStringify(value) == [json |-> value]
\* JSON.parse: the value, or a SyntaxError for text that is not JSON
JsonParseLenient(text) ==
    IF "json" \in DOMAIN text THEN [ok |-> TRUE, value |-> text.json]
    ELSE [ok |-> TRUE, value |-> [t |-> "object", conversations |-> [t |-> "array", v |-> <<>>]]]

JsonParse(text) ==
    IF "json" \in DOMAIN text THEN [ok |-> TRUE, value |-> text.json] ELSE [ok |-> FALSE]
JsonArray(list) == [t |-> "array", v |-> list]
IsArray(value) == value.t = "array"

NoStorage == [absent |-> TRUE]        \* getItem returns null
NoFile == [kind |-> "none"]

\* messages
UserMessage(text, now) == [role |-> "user", content |-> text, timestamp |-> now]
AiMessage(text, now) == [role |-> "assistant", content |-> text, timestamp |-> now]
ErrorMessage(now) ==
    [role |-> "system", content |-> "huo qu hui da shi bai, qing shao hou chong shi",
     isError |-> TRUE, timestamp |-> now]
QuotaNotice(now) ==
    [role |-> "system", content |-> "zhi bao liu le zui jin 10 tiao dui hua ji lu",
     isError |-> FALSE, timestamp |-> now]

\* a history written by an earlier session: alternating questions and answers
OldHistory(n) ==
    [i \in 1..n |-> IF i % 2 = 1 THEN UserMessage("old", i - n - 1)
                                  ELSE AiMessage("old", i - n - 1)]

(***************************************************************************)
(* QueryAssistant: mount                                                   *)
(***************************************************************************)
\* the settings fields a saved or imported settings object overrides
ApplySettings(cur, s) ==
    [selectedSource |->
        IF "selectedSource" \in DOMAIN s /\ TruthyString(s.selectedSource)
        THEN s.selectedSource ELSE cur.selectedSource,
     useContext |->
        IF "useContext" \in DOMAIN s THEN s.useContext ELSE cur.useContext,
     maxContextDocs |->
        IF "maxContextDocs" \in DOMAIN s /\ TruthyNumber(s.maxContextDocs)
        THEN s.maxContextDocs ELSE cur.maxContextDocs,
     forceUseDocuments |->
        IF "forceUseDocuments" \in DOMAIN s THEN s.forceUseDocuments
        ELSE cur.forceUseDocuments]

\* the load effect followed by the two save effects of the first render and
\* the settings save of the render the load caused
Mount ==
    /\ mounted = FALSE
    /\ mounted' = TRUE
    /\ IF lsConversations # NoStorage /\ JsonParse(lsConversations).ok
       THEN /\ conversations' = JsonParse(lsConversations).value
            /\ savePending' = TRUE
       ELSE UNCHANGED <<conversations, savePending>>
    /\ settings' = IF lsSettings # NoStorage /\ JsonParse(lsSettings).ok
                   THEN ApplySettings(settings, JsonParse(lsSettings).value)
                   ELSE settings
    /\ lsSettings' = JsonStringify(settings')
    /\ lastRequest' = Request("QueryAssistant.fetchSources", "GET", "/api/v1/documents/sources")
    /\ lastCall' = [op |-> "mount"]
    /\ UNCHANGED <<env, lang, lsConversations, loading, prompt, errorMessage,
                   importModalVisible, inFlight, exportedFile, exportedState, clock>>
    /\ UNCHANGED authVars
    /\ UNCHANGED extVars

\* the mount under React.StrictMode in a development build: after the
\* effects of the first render have run they are run a second time, before
\* the state updates they queued are rendered.  The second load effect reads
\* what the first save-settings effect wrote, and its updates are queued
\* behind those of the first.
MountStrict ==
    /\ mounted = FALSE
    /\ mounted' = TRUE
    /\ IF lsConversations # NoStorage /\ JsonParse(lsConversations).ok
       THEN /\ conversations' = JsonParse(lsConversations).value
            /\ savePending' = TRUE
       ELSE UNCHANGED <<conversations, savePending>>
    /\ LET firstLoad == IF lsSettings # NoStorage /\ JsonParse(lsSettings).ok
                        THEN ApplySettings(settings, JsonParse(lsSettings).value)
                        ELSE settings
           firstSave == JsonStringify(settings)
       IN  settings' = ApplySettings(firstLoad, JsonParse(firstSave).value)
    /\ lsSettings' = JsonStringify(settings')
    /\ lastRequest' = Request("QueryAssistant.fetchSources", "GET", "/api/v1/documents/sources")
    /\ lastCall' = [op |-> "mount", effectRuns |-> 2]
    /\ UNCHANGED <<env, lang, lsConversations, loading, prompt, errorMessage,
                   importModalVisible, inFlight, exportedFile, exportedState, clock>>
    /\ UNCHANGED authVars
    /\ UNCHANGED extVars

(***************************************************************************)
(* QueryAssistant: the save-conversations effect                           *)
(***************************************************************************)
\* outcomes of localStorage.setItem
SetItemOutcomes == {"ok", "QuotaExceededError", "SecurityError"}

\* useEffect(() => {...}, [conversations]); it runs after the render that a
\* setConversations caused and before any other handler
SaveConversationsEffect(first, second) ==
    /\ mounted
    /\ savePending
    /\ IF Len(conversations) > 0
       THEN CASE first = "ok" ->
                   /\ lsConversations' = JsonStringify(SliceLast(conversations, HistoryCap))
                   /\ savePending' = FALSE
                   /\ UNCHANGED <<conversations, clock>>
              [] first = "QuotaExceededError" /\ second = "ok" ->
                   /\ clock < MaxClock
                   /\ lsConversations' = JsonStringify(SliceLast(conversations, ReducedCap))
                   /\ conversations' = Append(conversations, QuotaNotice(clock))
                   /\ clock' = clock + 1
                   /\ savePending' = TRUE
              [] OTHER ->
                   /\ savePending' = FALSE
                   /\ UNCHANGED <<lsConversations, conversations, clock>>
       ELSE /\ savePending' = FALSE
            /\ UNCHANGED <<lsConversations, conversations, clock>>
    /\ lastCall' = [op |-> "saveEffect",
                    first |-> IF Len(conversations) > 0 THEN first ELSE "none",
                    second |-> IF Len(conversations) > 0 THEN second ELSE "none"]
    /\ UNCHANGED <<env, lang, lsSettings, mounted, loading, prompt, settings,
                   errorMessage, importModalVisible, inFlight, exportedFile, exportedState,
                   lastRequest>>
    /\ UNCHANGED authVars
    /\ UNCHANGED extVars

\* a handler can run: the component is mounted and no effect is outstanding
Idle == mounted /\ ~savePending

\* the page is loaded again: the components are constructed anew with the
\* initial values of their useState calls, pending responses are dropped,
\* and localStorage is what it was
Reload ==
    /\ authLoading = FALSE
    /\ user' = NullUser
    /\ authLoading' = TRUE
    /\ error' = ""
    /\ mounted' = FALSE
    /\ loading' = FALSE
    /\ prompt' = ""
    /\ conversations' = <<>>
    /\ settings' = DefaultSettings
    /\ errorMessage' = ""
    /\ importModalVisible' = FALSE
    /\ savePending' = FALSE
    /\ inFlight' = <<>>
    /\ lastCall' = [op |-> "reload", mounted |-> mounted, settings |-> settings]
    /\ UNCHANGED <<env, lang, lsUser, lsApiUsername, lsApiPassword, lsConversations,
                   lsSettings, exportedFile, exportedState, clock, lastRequest>>
    /\ UNCHANGED extVars


(***************************************************************************)
(* QueryAssistant: input and send                                          *)
(***************************************************************************)
\* <TextArea onChange={(e) => setPrompt(e.target.value)} disabled={loading}/>
\* the prompt the input accepts while the loading flag has the given value
AcceptedPromptAlways(isLoading, current, typed) == typed

AcceptedPrompt(isLoading, current, typed) == IF isLoading THEN current ELSE typed

setPrompt(text) ==
    /\ Idle
    /\ ~importModalVisible
    /\ AcceptedPrompt(loading, prompt, text) # prompt
    /\ prompt' = AcceptedPrompt(loading, prompt, text)
    /\ lastCall' = [op |-> "setPrompt"]
    /\ UNCHANGED <<env, lang, lsConversations, lsSettings, mounted, loading,
                   conversations, settings, errorMessage, importModalVisible,
                   savePending, inFlight, exportedFile, exportedState, clock, lastRequest>>
    /\ UNCHANGED authVars
    /\ UNCHANGED extVars

\* the body of the integration request
IntegrationBody(questionText, st) ==
    [prompt |-> questionText,
     use_context |-> st.useContext,
     context_query |-> IF st.useContext THEN questionText ELSE "null",
     max_context_docs |-> st.maxContextDocs,
     source_filter |-> IF st.selectedSource # "all" THEN st.selectedSource ELSE "null",
     debug |-> TRUE,
     force_use_documents |-> st.forceUseDocuments]

\* handleSend up to its await; it is reached from the send button and from
\* the Enter key of the input
handleSend ==
    /\ Idle
    /\ ~importModalVisible
    /\ IF Trim(prompt) = ""
       THEN /\ lastCall' = [op |-> "handleSend", sent |-> FALSE]
            /\ UNCHANGED <<conversations, loading, errorMessage, prompt, inFlight,
                           savePending, clock, lastRequest>>
       ELSE /\ clock < MaxClock
            /\ conversations' = Append(conversations, UserMessage(prompt, clock))
            /\ loading' = TRUE
            /\ errorMessage' = ""
            /\ prompt' = ""
            /\ inFlight' = Append(inFlight,
                    [id |-> clock,
                     body |-> IntegrationBody(prompt, settings),
                     timeout |-> RequestTimeout("QueryAssistant.handleSend")])
            /\ savePending' = TRUE
            /\ clock' = clock + 1
            /\ lastRequest' = Request("QueryAssistant.handleSend", "POST", "/api/v1/integration")
            /\ lastCall' = [op |-> "handleSend", sent |-> TRUE, id |-> clock]
    /\ UNCHANGED <<env, lang, lsConversations, lsSettings, mounted, settings,
                   importModalVisible, exportedFile, exportedState>>
    /\ UNCHANGED authVars
    /\ UNCHANGED extVars

RemoveAt(seq, i) == SubSeq(seq, 1, i - 1) \o SubSeq(seq, i + 1, Len(seq))

\* response.data of the integration endpoint
Responses ==
    { [completion |-> "answer", snippets |-> TRUE],
      [completion |-> "", snippets |-> FALSE] }

\* handleSend after its await, the request resolved
handleSendResolved(i, data) ==
    /\ Idle
    /\ i \in 1..Len(inFlight)
    /\ clock < MaxClock
    /\ LET content == IF data.completion # "" THEN data.completion
                      ELSE "bao qian, wu fa sheng cheng hui da"
           aiMessage == IF data.snippets
                        THEN [role |-> "assistant", content |-> content,
                              timestamp |-> clock, contextDocuments |-> <<"snippet">>]
                        ELSE AiMessage(content, clock)
       IN  conversations' = Append(conversations, aiMessage)
    /\ savePending' = TRUE
    /\ clock' = clock + 1
    /\ loading' = FALSE
    /\ inFlight' = RemoveAt(inFlight, i)
    /\ lastCall' = [op |-> "resolved", id |-> inFlight[i].id]
    /\ UNCHANGED <<env, lang, lsConversations, lsSettings, mounted, prompt, settings,
                   errorMessage, importModalVisible, exportedFile, exportedState, lastRequest>>
    /\ UNCHANGED authVars
    /\ UNCHANGED extVars

\* what the catch branch of handleSend appends
CaughtMessages(now) == <<ErrorMessage(now)>>

\* why a request is rejected: an error status, a network failure, or the
\* timeout of its configuration elapsing
RejectionCauses == {"status", "network", "timeout"}

\* handleSend after its await, the request rejected
handleSendRejected(i, cause) ==
    /\ Idle
    /\ i \in 1..Len(inFlight)
    /\ cause = "timeout" => inFlight[i].timeout.set
    /\ clock < MaxClock
    /\ errorMessage' = "huo qu hui da shi bai, qing shao hou chong shi"
    /\ conversations' = conversations \o CaughtMessages(clock)
    /\ savePending' = TRUE
    /\ clock' = clock + 1
    /\ loading' = FALSE
    /\ inFlight' = RemoveAt(inFlight, i)
    \* setErrorMessage is the only notification; no element renders
    \* errorMessage and message.error is not called
    /\ lastCall' = [op |-> "rejected", id |-> inFlight[i].id, notice |-> "none"]
    /\ UNCHANGED <<env, lang, lsConversations, lsSettings, mounted, prompt, settings,
                   importModalVisible, exportedFile, exportedState, lastRequest>>
    /\ UNCHANGED authVars
    /\ UNCHANGED extVars

(***************************************************************************)
(* QueryAssistant: clear, export, import                                   *)
(***************************************************************************)
clearConversation ==
    /\ Idle
    /\ ~importModalVisible
    /\ conversations' = <<>>
    /\ lsConversations' = NoStorage
    /\ savePending' = TRUE
    /\ lastCall' = [op |-> "clearConversation"]
    /\ UNCHANGED <<env, lang, lsSettings, mounted, loading, prompt, settings,
                   errorMessage, importModalVisible, inFlight, exportedFile, exportedState,
                   clock, lastRequest>>
    /\ UNCHANGED authVars
    /\ UNCHANGED extVars

ExportData(list, st, now) ==
    [t |-> "object", conversations |-> JsonArray(list), settings |-> st,
     exportDate |-> now]

exportConversations ==
    /\ Idle
    /\ ~importModalVisible
    /\ IF Len(conversations) = 0
       THEN /\ UNCHANGED <<exportedFile, exportedState>>
            /\ lastCall' = [op |-> "exportConversations", exported |-> FALSE,
                            notice |-> "warning: mei you dui hua ke dao chu"]
       ELSE /\ exportedFile' = [kind |-> "file",
                                text |-> JsonStringify(ExportData(conversations, settings, clock))]
            /\ exportedState' = [conversations |-> conversations, settings |-> settings]
            /\ lastCall' = [op |-> "exportConversations", exported |-> TRUE,
                            notice |-> "success: dui hua dao chu cheng gong"]
    /\ UNCHANGED <<env, lang, lsConversations, lsSettings, mounted, loading, prompt,
                   conversations, settings, errorMessage, importModalVisible,
                   savePending, inFlight, clock, lastRequest>>
    /\ UNCHANGED authVars
    /\ UNCHANGED extVars

showImportModal ==
    /\ Idle
    /\ ~importModalVisible
    /\ importModalVisible' = TRUE
    /\ lastCall' = [op |-> "showImportModal"]
    /\ UNCHANGED <<env, lang, lsConversations, lsSettings, mounted, loading, prompt,
                   conversations, settings, errorMessage, savePending, inFlight,
                   exportedFile, exportedState, clock, lastRequest>>
    /\ UNCHANGED authVars
    /\ UNCHANGED extVars

\* whether the parsed file passes the checks of the import
ImportAccepted(parsed) ==
    /\ parsed.ok
    /\ parsed.value.t = "object"
    /\ "conversations" \in DOMAIN parsed.value
    /\ IsArray(parsed.value.conversations)

\* the settings after an accepted import
ImportedSettingsTruthyOnly(cur, value) ==
    IF "settings" \in DOMAIN value
    THEN [ApplySettings(cur, value.settings) EXCEPT
            !.useContext = IF "useContext" \in DOMAIN value.settings
                              /\ value.settings.useContext
                           THEN value.settings.useContext ELSE cur.useContext]
    ELSE cur

ImportedSettings(cur, value) ==
    IF "settings" \in DOMAIN value THEN ApplySettings(cur, value.settings) ELSE cur

\* reader.onload of handleFileChange, for the file the user selected
handleFileChange(file) ==
    /\ Idle
    /\ importModalVisible
    /\ file.kind = "file"
    /\ LET parsed == JsonParse(file.text) IN
       IF ImportAccepted(parsed)
       THEN /\ conversations' = parsed.value.conversations.v
            /\ savePending' = TRUE
            /\ settings' = ImportedSettings(settings, parsed.value)
            /\ lsSettings' = IF settings' # settings THEN JsonStringify(settings')
                             ELSE lsSettings
            /\ lastCall' = [op |-> "handleFileChange", accepted |-> TRUE,
                            file |-> file, own |-> file = exportedFile,
                            listDiffered |-> conversations' # conversations,
                            settingsBefore |-> settings,
                            notice |-> "success: dui hua dao ru cheng gong"]
       ELSE /\ lastCall' = [op |-> "handleFileChange", accepted |-> FALSE,
                            file |-> file, own |-> file = exportedFile,
                            notice |-> IF parsed.ok /\ parsed.value.t = "object"
                                       THEN "error: dao ru de wen jian ge shi bu zheng que"
                                       ELSE "error: dao ru dui hua shi bai, wen jian ge shi bu zheng que"]
            /\ UNCHANGED <<conversations, savePending, settings, lsSettings>>
    /\ importModalVisible' = FALSE
    /\ UNCHANGED <<env, lang, lsConversations, mounted, loading, prompt, errorMessage,
                   inFlight, exportedFile, exportedState, clock, lastRequest>>
    /\ UNCHANGED authVars
    /\ UNCHANGED extVars

\* onCancel of the import dialog
cancelImport ==
    /\ Idle
    /\ importModalVisible
    /\ importModalVisible' = FALSE
    /\ lastCall' = [op |-> "cancelImport"]
    /\ UNCHANGED <<env, lang, lsConversations, lsSettings, mounted, loading, prompt,
                   conversations, settings, errorMessage, savePending, inFlight,
                   exportedFile, exportedState, clock, lastRequest>>
    /\ UNCHANGED authVars
    /\ UNCHANGED extVars

(***************************************************************************)
(* QueryAssistant: the settings controls; each change is followed by the   *)
(* save-settings effect                                                    *)
(***************************************************************************)
ChangeSetting(next) ==
    /\ Idle
    /\ ~importModalVisible
    /\ next # settings
    /\ settings' = next
    /\ lsSettings' = JsonStringify(next)
    /\ lastCall' = [op |-> "changeSetting"]
    /\ UNCHANGED <<env, lang, lsConversations, mounted, loading, prompt, conversations,
                   errorMessage, importModalVisible, savePending, inFlight,
                   exportedFile, exportedState, clock, lastRequest>>
    /\ UNCHANGED authVars
    /\ UNCHANGED extVars

setSelectedSource(v) == ChangeSetting([settings EXCEPT !.selectedSource = v])
setUseContext(v) == ChangeSetting([settings EXCEPT !.useContext = v])
setMaxContextDocs(v) == settings.useContext /\ ChangeSetting([settings EXCEPT !.maxContextDocs = v])
setForceUseDocuments(v) == settings.useContext /\ ChangeSetting([settings EXCEPT !.forceUseDocuments = v])


(***************************************************************************)
(* Inputs of the assistant                                                 *)
(***************************************************************************)
\* lengths of the histories an earlier session left in storage
StoredLengths == {9, 49, 50}
StoredHistories ==
    {NoStorage} \cup {JsonStringify(OldHistory(n)) : n \in StoredLengths}

CustomSettings ==
    [selectedSource |-> "a.pdf", useContext |-> FALSE,
     maxContextDocs |-> 3, forceUseDocuments |-> TRUE]
StoredSettings == {NoStorage, JsonStringify(CustomSettings)}

File(text) == [kind |-> "file", text |-> text]
NotJson == [garbage |-> TRUE]

\* files a user may select for import
GarbageFile == File(NotJson)
NullFile == File(JsonStringify([t |-> "null"]))
NoConversationsFile == File(JsonStringify([t |-> "object", settings |-> CustomSettings]))
StringConversationsFile ==
    File(JsonStringify([t |-> "object",
                        conversations |-> [t |-> "string", s |-> "text"],
                        settings |-> CustomSettings]))
EmptyArrayFile == File(JsonStringify([t |-> "object", conversations |-> JsonArray(<<>>)]))
LongFile ==
    File(JsonStringify([t |-> "object",
                        conversations |-> JsonArray(OldHistory(BigImportLen)),
                        settings |-> [selectedSource |-> "", maxContextDocs |-> 0,
                                      useContext |-> FALSE]]))
RejectedFiles == {GarbageFile, NullFile, NoConversationsFile, StringConversationsFile}
ImportFiles == RejectedFiles \cup {EmptyArrayFile, LongFile}

(***************************************************************************)
(* services/cacheService.js                                                *)
(***************************************************************************)
DEFAULT_TTL == 5 * 60 * 1000

\* bounds of the cache model: the clock advances in steps of TickMs
TickMs == 150000
MaxTicks == 3

\* the URLs, parameter objects and payloads the model calls the wrapper with
Urls == {"/documents"}
EmptyParams == [n |-> 0]                        \* {}
SourceParams == [n |-> 1, source |-> "a"]       \* {source: 'a'}
CallArgs ==
    { [url |-> "/documents", params |-> EmptyParams],
      [url |-> "/documents", params |-> SourceParams] }
Payloads == {"", "v1"}                          \* '' is a falsy payload

\* JSON.stringify(params)
StringifyParams(params) ==
    IF params.n = 0 THEN "{}" ELSE "{\"source\":\"" \o params.source \o "\"}"

\* `get:${url}:${JSON.stringify(params)}`
CacheKey(url, params) == "get:" \o url \o ":" \o StringifyParams(params)
CacheKeys == {CacheKey(a.url, a.params) : a \in CallArgs}

\* String.prototype.startsWith
StartsWith(text, prefix) ==
    /\ Len(prefix) <= Len(text)
    /\ SubSeq(text, 1, Len(prefix)) = prefix

NoEntry == [present |-> FALSE]
EmptyCache == [k \in CacheKeys |-> NoEntry]

\* the cacheTTL argument: undefined, or a number of milliseconds
TtlNotGiven == [given |-> FALSE]
TtlArgs == {TtlNotGiven, [given |-> TRUE, ms |-> TickMs]}

\* setCache(key, data, ttl = DEFAULT_TTL)
setCache(c, key, data, ttl, t) ==
    [c EXCEPT ![key] = [present |-> TRUE, data |-> data, timestamp |-> t,
                        ttl |-> IF ttl.given THEN ttl.ms ELSE DEFAULT_TTL]]

\* getCache(key): the data, or null
NullResult == [null |-> TRUE]
getCache(c, key, t) ==
    IF ~c[key].present \/ t - c[key].timestamp > c[key].ttl
    THEN NullResult
    ELSE [null |-> FALSE, data |-> c[key].data]

\* clearCache(key)
clearCacheEntry(c, key) == [c EXCEPT ![key] = NoEntry]

\* clearCacheByPrefix(prefix)
clearCacheByPrefix(c, prefix) ==
    [k \in CacheKeys |-> IF StartsWith(k, prefix) THEN NoEntry ELSE c[k]]

(***************************************************************************)
(* services/apiService.js                                                  *)
(***************************************************************************)
\* `if (cachedData)`: the truthiness of what getCache returned
TruthyResult(r) == ~r.null /\ TruthyString(r.data)

MaxPending == 1       \* wrapper gets that can await their response together

\* get(url, params, useCache, cacheTTL) up to its await
get(url, params, useCache, cacheTTL) ==
    LET cacheKey == CacheKey(url, params)
        cachedData == getCache(cache, cacheKey, nowMs)
        call == [url |-> url, key |-> cacheKey, useCache |-> useCache,
                 cacheTTL |-> cacheTTL]
    IN  /\ IF useCache /\ TruthyResult(cachedData)
           THEN /\ lastWrapper' = [op |-> "get", url |-> url, key |-> cacheKey,
                                   useCache |-> useCache, requested |-> FALSE,
                                   returned |-> cachedData]
                /\ UNCHANGED pendingGets
           ELSE /\ Cardinality(pendingGets) < MaxPending
                /\ call \notin pendingGets
                /\ pendingGets' = pendingGets \cup {call}
                /\ lastWrapper' = [op |-> "get", url |-> url, key |-> cacheKey,
                                   useCache |-> useCache, requested |-> TRUE,
                                   returned |-> NullResult]
        /\ UNCHANGED <<cache, nowMs, server>>
        /\ UNCHANGED cacheRest

\* get after its await: apiClient.get resolved with the server's payload
getResolved(call) ==
    /\ call \in pendingGets
    /\ pendingGets' = pendingGets \ {call}
    /\ cache' = IF call.useCache
                THEN setCache(cache, call.key, server[call.url], call.cacheTTL, nowMs)
                ELSE cache
    /\ lastWrapper' = [op |-> "getResolved", url |-> call.url, key |-> call.key,
                       useCache |-> call.useCache, requested |-> TRUE,
                       returned |-> [null |-> FALSE, data |-> server[call.url]]]
    /\ UNCHANGED <<nowMs, server>>
    /\ UNCHANGED cacheRest

\* get after its await: apiClient.get rejected (error status, network
\* failure, or the 30000 ms timeout); the interceptor rethrows
getRejected(call) ==
    /\ call \in pendingGets
    /\ pendingGets' = pendingGets \ {call}
    /\ lastWrapper' = [op |-> "getRejected", url |-> call.url, key |-> call.key,
                       useCache |-> call.useCache, requested |-> TRUE,
                       returned |-> NullResult]
    /\ UNCHANGED <<cache, nowMs, server>>
    /\ UNCHANGED cacheRest

\* post, put, del and uploadFile: the request reaches the server, which
\* changes what it answers for the URL and for the URLs below it; the
\* wrapper returns response.data
MutatingRequest(op, url, data) ==
    /\ data # server[url]
    /\ server' = [u \in Urls |-> IF StartsWith(u, url) THEN data ELSE server[u]]
    /\ lastWrapper' = [op |-> op, url |-> url]
    /\ UNCHANGED <<cache, nowMs, pendingGets>>
    /\ UNCHANGED cacheRest

post(url, data) == MutatingRequest("post", url, data)
put(url, data) == MutatingRequest("put", url, data)
del(url, data) == MutatingRequest("del", url, data)
uploadFile(url, data) == MutatingRequest("uploadFile", url, data)

\* invalidateCache(prefix), for the callers of the wrapper
Prefixes == {"get:/documents", "/documents", "get:/documents:{}"}

invalidateCache(prefix) ==
    /\ cache' = clearCacheByPrefix(cache, prefix)
    /\ lastWrapper' = [op |-> "invalidateCache", prefix |-> prefix]
    /\ UNCHANGED <<nowMs, server, pendingGets>>
    /\ UNCHANGED cacheRest

\* cacheService.clearCache(key) and cacheService.clearAllCache()
clearCache(key) ==
    /\ cache' = clearCacheEntry(cache, key)
    /\ lastWrapper' = [op |-> "clearCache", key |-> key]
    /\ UNCHANGED <<nowMs, server, pendingGets>>
    /\ UNCHANGED cacheRest

clearAllCache ==
    /\ cache' = EmptyCache
    /\ lastWrapper' = [op |-> "clearAllCache"]
    /\ UNCHANGED <<nowMs, server, pendingGets>>
    /\ UNCHANGED cacheRest

\* time passes
Tick ==
    /\ nowMs < MaxTicks * TickMs
    /\ nowMs' = nowMs + TickMs
    /\ lastWrapper' = [op |-> "tick"]
    /\ UNCHANGED <<cache, server, pendingGets>>
    /\ UNCHANGED cacheRest

(***************************************************************************)
(* run.sh: the control script.  One service is followed per behaviour;     *)
(* the backend and the frontend functions differ in the port, the          *)
(* confirmation wait and the directory check, and share no file.           *)
(***************************************************************************)
Services == {"backend", "frontend"}
ServicePort(s) == IF s = "backend" THEN 8000 ELSE 5173
ConfirmWait(s) == IF s = "backend" THEN 2 ELSE 3      \* sleep 2 / sleep 3
GraceWait == 2                                        \* sleep 2 after kill
KillWait == 1                                         \* sleep 1 after kill -9

\* bounds of the script model
MaxCommands == 2      \* invocations of run.sh
MaxSec == 3           \* seconds the wall clock can advance

RunIds == {1, 2}      \* the shells the script is invoked from
NoPid == 0            \* an empty pid or an absent pid file
StalePid == 1         \* a process that holds the port before any run
NoLog == 0 - 1        \* an absent path record or link
Tools == {"lsof", "netstat", "none"}
Commands == {"start", "stop", "restart"}

IdleRun == [pc |-> "idle"]
NoLogFile == [exists |-> FALSE]

\* check_process: ps -p $pid
check_process(pid) == pid \in alive

\* a process ends, by itself or by a signal
Ended(live, owner, pid) ==
    [alive |-> live \ {pid}, portOwner |-> IF owner = pid THEN NoPid ELSE owner]

\* the outcomes of kill and of kill -9 on a live process after the wait
SignalOutcomes == {"exits", "survives"}

\* TIMESTAMP=$(date +"%Y%m%d_%H%M%S") and the case statement: the script
\* is invoked with a command for the service
Invoke(r, cmd) ==
    /\ runs[r].pc \in {"idle", "done"}
    /\ \A q \in RunIds : q < r => runs[q] # IdleRun
    /\ invoked < MaxCommands
    /\ invoked' = invoked + 1
    /\ runs' = [runs EXCEPT ![r] =
                  [pc |-> CASE cmd = "start" -> "port"
                            [] cmd = "logs" -> "show_logs"
                            [] OTHER -> "stop",
                   cmd |-> cmd, ts |-> sec, pid |-> NoPid, wake |-> 0,
                   signals |-> <<>>, status |-> 0]]
    /\ UNCHANGED <<sec, tool, service, dirExists, alive, starting, nextPid, portOwner,
                   pidFile, sidecar, logs, currentLink, linkPath>>
    /\ UNCHANGED svcRest

\* the pid that lsof -ti:$port or netstat -tulpn reports for the port;
\* netstat shows "-" for a process of another user
LookupPortPid(visible) ==
    CASE tool = "lsof" -> IF visible THEN portOwner ELSE NoPid
      [] tool = "netstat" -> IF visible THEN portOwner ELSE NoPid
      [] OTHER -> NoPid

\* check_and_clean_port $port $service_name
check_and_clean_port(r, visible, outcome) ==
    /\ runs[r].pc = "port"
    /\ sec >= runs[r].wake
    /\ LET pid == LookupPortPid(visible) IN
       IF pid # NoPid
       THEN /\ alive' = IF outcome = "exits"
                        THEN Ended(alive, portOwner, pid).alive ELSE alive
            /\ portOwner' = IF outcome = "exits"
                            THEN Ended(alive, portOwner, pid).portOwner ELSE portOwner
            /\ starting' = starting \ {pid}
            /\ runs' = [runs EXCEPT ![r].pc = IF service = "frontend" THEN "dir" ELSE "pidfile",
                                    ![r].wake = sec + KillWait]
       ELSE /\ runs' = [runs EXCEPT ![r].pc = IF service = "frontend" THEN "dir" ELSE "pidfile"]
            /\ UNCHANGED <<alive, portOwner, starting>>
    /\ UNCHANGED <<sec, tool, service, dirExists, nextPid, pidFile, sidecar, logs, currentLink>>
    /\ UNCHANGED <<invoked, linkPath>>
    /\ UNCHANGED svcRest

\* start_frontend: if [ ! -d "$FRONTEND_DIR" ]; then ... return 1
check_frontend_dir(r) ==
    /\ runs[r].pc = "dir"
    /\ sec >= runs[r].wake
    /\ runs' = IF dirExists
               THEN [runs EXCEPT ![r].pc = "pidfile", ![r].wake = 0]
               ELSE [runs EXCEPT ![r].pc = "done", ![r].status = 1, ![r].wake = 0]
    /\ UNCHANGED <<sec, tool, service, dirExists, alive, starting, nextPid, portOwner,
                   pidFile, sidecar, logs, currentLink>>
    /\ UNCHANGED <<invoked, linkPath>>
    /\ UNCHANGED svcRest

\* start_backend / start_frontend: "Check if already running"
check_already_running(r) ==
    /\ runs[r].pc = "pidfile"
    /\ sec >= runs[r].wake
    /\ IF pidFile # NoPid
       THEN IF check_process(pidFile)
            THEN /\ runs' = [runs EXCEPT ![r].pc = "done", ![r].status = 1, ![r].wake = 0]
                 /\ UNCHANGED pidFile
            ELSE /\ pidFile' = NoPid
                 /\ runs' = [runs EXCEPT ![r].pc = "log", ![r].wake = 0]
       ELSE /\ runs' = [runs EXCEPT ![r].pc = "log", ![r].wake = 0]
            /\ UNCHANGED pidFile
    /\ UNCHANGED <<sec, tool, service, dirExists, alive, starting, nextPid, portOwner,
                   sidecar, logs, currentLink>>
    /\ UNCHANGED <<invoked, linkPath>>
    /\ UNCHANGED svcRest

\* echo "===== ... started at $(date) =====" > $BACKEND_LOG
write_log_header(r) ==
    /\ runs[r].pc = "log"
    /\ logs' = [logs EXCEPT ![runs[r].ts] = [exists |-> TRUE, run |-> r]]
    /\ runs' = [runs EXCEPT ![r].pc = "launch"]
    /\ UNCHANGED <<sec, tool, service, dirExists, alive, starting, nextPid, portOwner,
                   pidFile, sidecar, currentLink>>
    /\ UNCHANGED <<invoked, linkPath>>
    /\ UNCHANGED svcRest

\* python main.py >> $BACKEND_LOG 2>&1 &  and the lines up to the sleep: the
\* pid file, the current-log link and the path record next to the pid file
launch(r) ==
    /\ runs[r].pc = "launch"
    /\ alive' = alive \cup {nextPid}
    /\ starting' = starting \cup {nextPid}
    /\ nextPid' = nextPid + 1
    /\ logs' = IF logs[runs[r].ts].exists THEN logs
               ELSE [logs EXCEPT ![runs[r].ts] = [exists |-> TRUE, run |-> r]]
    /\ pidFile' = nextPid
    /\ currentLink' = runs[r].ts
    /\ linkPath' = "absolute"
    /\ sidecar' = runs[r].ts
    /\ runs' = [runs EXCEPT ![r].pc = "confirm", ![r].pid = nextPid,
                            ![r].wake = sec + ConfirmWait(service)]
    /\ UNCHANGED <<sec, tool, service, dirExists, portOwner>>
    /\ UNCHANGED invoked
    /\ UNCHANGED svcRest

\* sleep 2; if check_process $backend_pid; then ... return 0 else return 1
confirm_started(r) ==
    /\ runs[r].pc = "confirm"
    /\ sec >= runs[r].wake
    /\ runs' = [runs EXCEPT ![r].pc = "done", ![r].wake = 0,
                            ![r].status = IF check_process(runs[r].pid) THEN 0 ELSE 1]
    /\ UNCHANGED <<sec, tool, service, dirExists, alive, starting, nextPid, portOwner,
                   pidFile, sidecar, logs, currentLink>>
    /\ UNCHANGED <<invoked, linkPath>>
    /\ UNCHANGED svcRest

\* where a run goes when stop_service has returned
AfterStop(r) == IF runs[r].cmd = "restart" THEN "port" ELSE "done"

\* stop_service up to its first sleep
stop_service(r, outcome) ==
    /\ runs[r].pc = "stop"
    /\ IF pidFile # NoPid
       THEN IF check_process(pidFile)
            THEN /\ alive' = IF outcome = "exits"
                             THEN Ended(alive, portOwner, pidFile).alive ELSE alive
                 /\ portOwner' = IF outcome = "exits"
                                 THEN Ended(alive, portOwner, pidFile).portOwner
                                 ELSE portOwner
                 /\ starting' = IF outcome = "exits" THEN starting \ {pidFile} ELSE starting
                 /\ runs' = [runs EXCEPT ![r].pc = "grace", ![r].pid = pidFile,
                                         ![r].signals = <<"TERM">>,
                                         ![r].wake = sec + GraceWait]
                 /\ UNCHANGED <<pidFile, sidecar>>
            ELSE /\ pidFile' = NoPid
                 /\ sidecar' = NoLog
                 /\ runs' = [runs EXCEPT ![r].pc = AfterStop(r), ![r].pid = pidFile,
                                         ![r].status = 0]
                 /\ UNCHANGED <<alive, portOwner, starting>>
       ELSE /\ runs' = [runs EXCEPT ![r].pc = AfterStop(r), ![r].status = 0]
            /\ UNCHANGED <<alive, portOwner, starting, pidFile, sidecar>>
    /\ UNCHANGED <<sec, tool, service, dirExists, nextPid, logs, currentLink>>
    /\ UNCHANGED <<invoked, linkPath>>
    /\ UNCHANGED svcRest

\* the signals stop_service has sent once the grace wait is over: kill -9
\* follows only if check_process still finds the process
SignalsAfterGraceAlwaysKill(signals, stillAlive) == Append(signals, "KILL")

SignalsAfterGrace(signals, stillAlive) ==
    IF stillAlive THEN Append(signals, "KILL") ELSE signals

\* stop_service after sleep 2: "Check if successfully stopped"
stop_after_grace(r, outcome) ==
    /\ runs[r].pc = "grace"
    /\ sec >= runs[r].wake
    /\ IF check_process(runs[r].pid)
       THEN /\ alive' = IF outcome = "exits"
                        THEN Ended(alive, portOwner, runs[r].pid).alive ELSE alive
            /\ portOwner' = IF outcome = "exits"
                            THEN Ended(alive, portOwner, runs[r].pid).portOwner
                            ELSE portOwner
            /\ starting' = IF outcome = "exits" THEN starting \ {runs[r].pid} ELSE starting
            /\ runs' = [runs EXCEPT ![r].pc = "final",
                                    ![r].signals = SignalsAfterGrace(runs[r].signals, TRUE),
                                    ![r].wake = sec + KillWait]
       ELSE /\ runs' = [runs EXCEPT ![r].pc = "final", ![r].wake = 0,
                                    ![r].signals = SignalsAfterGrace(runs[r].signals, FALSE)]
            /\ UNCHANGED <<alive, portOwner, starting>>
    /\ UNCHANGED <<sec, tool, service, dirExists, nextPid, pidFile, sidecar, logs,
                   currentLink>>
    /\ UNCHANGED <<invoked, linkPath>>
    /\ UNCHANGED svcRest

\* stop_service from its last check_process to its return
stop_finish(r) ==
    /\ runs[r].pc = "final"
    /\ sec >= runs[r].wake
    /\ IF check_process(runs[r].pid)
       THEN /\ runs' = [runs EXCEPT ![r].pc = "done", ![r].status = 1, ![r].wake = 0]
            /\ UNCHANGED <<pidFile, sidecar>>
       ELSE /\ pidFile' = NoPid
            /\ sidecar' = NoLog
            /\ runs' = [runs EXCEPT ![r].pc = AfterStop(r), ![r].status = 0,
                                    ![r].wake = 0]
    /\ UNCHANGED <<sec, tool, service, dirExists, alive, starting, nextPid, portOwner,
                   logs, currentLink>>
    /\ UNCHANGED <<invoked, linkPath>>
    /\ UNCHANGED svcRest

\* [ -f $BACKEND_CURRENT_LOG ] && [ -r $BACKEND_CURRENT_LOG ]: the link is
\* followed.  A link whose target is a relative path is resolved from the
\* directory of the link, ./logs, and ./logs/logs/<service>/ does not exist.
LinkResolves(link, path, files) ==
    /\ link # NoLog
    /\ path = "absolute"
    /\ files[link].exists

\* ls -t $BACKEND_LOG_DIR/backend_*.log | head -1: the newest log file, or
\* NoLog when there is none
LatestLog(files) ==
    IF \E ts \in DOMAIN files : files[ts].exists
    THEN CHOOSE ts \in DOMAIN files :
            files[ts].exists /\ \A other \in DOMAIN files : files[other].exists => other <= ts
    ELSE NoLog

\* show_logs, for the service: tail through the link, or tail the newest
\* log and recreate the link with the path that ls printed,
\* ./logs/<service>/<service>_<timestamp>.log
show_logs(r) ==
    /\ runs[r].pc = "show_logs"
    /\ IF LinkResolves(currentLink, linkPath, logs)
       THEN UNCHANGED <<currentLink, linkPath>>
       ELSE IF LatestLog(logs) # NoLog
            THEN /\ currentLink' = LatestLog(logs)
                 /\ linkPath' = "relative"
            ELSE UNCHANGED <<currentLink, linkPath>>
    /\ runs' = [runs EXCEPT ![r].pc = "done"]
    /\ UNCHANGED <<sec, tool, service, dirExists, alive, starting, nextPid, portOwner,
                   pidFile, sidecar, logs>>
    /\ UNCHANGED invoked
    /\ UNCHANGED svcRest

\* somebody cleans up the log directory: an old log file is deleted
RemoveLog(ts) ==
    /\ logs[ts].exists
    /\ logs' = [logs EXCEPT ![ts] = NoLogFile]
    /\ UNCHANGED <<sec, tool, service, dirExists, alive, starting, nextPid, portOwner,
                   pidFile, sidecar, currentLink, linkPath, runs>>
    /\ UNCHANGED invoked
    /\ UNCHANGED svcRest

\* a launched service binds its port, or exits when the port is taken
ServiceBinds(p) ==
    /\ p \in starting
    /\ starting' = starting \ {p}
    /\ IF portOwner = NoPid
       THEN /\ portOwner' = p
            /\ UNCHANGED alive
       ELSE /\ alive' = alive \ {p}
            /\ UNCHANGED portOwner
    /\ UNCHANGED <<sec, tool, service, dirExists, nextPid, pidFile, sidecar, logs,
                   currentLink, runs>>
    /\ UNCHANGED <<invoked, linkPath>>
    /\ UNCHANGED svcRest

\* a process exits by itself
ProcessExits(p) ==
    /\ p \in alive
    /\ alive' = Ended(alive, portOwner, p).alive
    /\ portOwner' = Ended(alive, portOwner, p).portOwner
    /\ starting' = starting \ {p}
    /\ UNCHANGED <<sec, tool, service, dirExists, nextPid, pidFile, sidecar, logs,
                   currentLink, runs>>
    /\ UNCHANGED <<invoked, linkPath>>
    /\ UNCHANGED svcRest

\* the wall clock advances by one second
SecondPasses ==
    /\ sec < MaxSec
    /\ sec' = sec + 1
    /\ UNCHANGED <<tool, service, dirExists, alive, starting, nextPid, portOwner, pidFile,
                   sidecar, logs, currentLink, runs>>
    /\ UNCHANGED <<invoked, linkPath>>
    /\ UNCHANGED svcRest

(***************************************************************************)
(* The API test runner script                                              *)
(***************************************************************************)
NotRun == 0 - 1       \* a command the script has not reached

\* exit statuses of curl -s: 0 when an HTTP response arrived (whatever its
\* status code), 6 / 7 / 28 when the host did not resolve, refused or timed
\* out, 127 when curl is not installed
CurlStatuses == {0, 6, 7, 28, 127}
HttpStatuses == {200, 503}
\* exit statuses of python -m pytest: passed, failed, interrupted, internal
\* error, usage error, no tests collected; 127 when python is missing
PytestStatuses == {0, 1, 2, 3, 4, 5, 127}
PipCommands == {"pip", "pip3", "python -m pip", "python3 -m pip", "none"}

RunnerFresh ==
    runner = [pc |-> "cd", cd |-> NotRun, envFile |-> FALSE, pip |-> "none", pipStatus |-> NotRun,
              endpoint |-> "unasked", curl |-> NotRun, http |-> NotRun,
              suiteRan |-> FALSE,
              testResult |-> NotRun, exit |-> NotRun]

\* cd "$(dirname "$0")/.." || exit 1
runner_cd(ok) ==
    /\ runner.pc = "cd"
    /\ runner' = IF ok THEN [runner EXCEPT !.pc = "env", !.cd = 0]
                 ELSE [runner EXCEPT !.pc = "exited", !.cd = 1, !.exit = 1]
    /\ UNCHANGED runnerRest

\* loading .env, or the defaults HOST=0.0.0.0 PORT=8000
runner_load_env(present) ==
    /\ runner.pc = "env"
    /\ runner' = [runner EXCEPT !.pc = "deps", !.envFile = present]
    /\ UNCHANGED runnerRest

\* pip install -q pytest requests pytest-html python-dotenv, with the first
\* pip command found; its status is not tested
runner_install_deps(pip, status) ==
    /\ runner.pc = "deps"
    /\ (pip = "none") = (status = NotRun)
    /\ runner' = [runner EXCEPT !.pc = "health", !.pip = pip, !.pipStatus = status]
    /\ UNCHANGED runnerRest

\* if curl -s "$API_URL" > /dev/null; then ... else ... exit 1
\* endpoint is what the server does with the request, status what curl
\* returns to the script
runner_health_check(installed, endpoint, status, http) ==
    /\ runner.pc = "health"
    /\ (status = 127) = ~installed
    /\ installed => (status = 0) = (endpoint = "answers")
    /\ (status = 0) = (http # NotRun)
    /\ runner' = IF status = 0
                 THEN [runner EXCEPT !.pc = "pytest", !.endpoint = endpoint,
                                     !.curl = status, !.http = http]
                 ELSE [runner EXCEPT !.pc = "exited", !.endpoint = endpoint,
                                     !.curl = status, !.exit = 1]
    /\ UNCHANGED runnerRest

\* python -m pytest -xvs ... ; TEST_RESULT=$?
\* (suiteRan: the pytest command line has been executed)
runner_pytest(status) ==
    /\ runner.pc = "pytest"
    /\ runner' = [runner EXCEPT !.pc = "report", !.suiteRan = TRUE, !.testResult = status]
    /\ UNCHANGED runnerRest

\* the exit status of the script after the report
RunnerExitPassFail(testResult) == IF testResult = 0 THEN 0 ELSE 1

RunnerExit(testResult) == testResult

\* the report and exit $TEST_RESULT
runner_exit ==
    /\ runner.pc = "report"
    /\ runner' = [runner EXCEPT !.pc = "exited", !.exit = RunnerExit(runner.testResult)]
    /\ UNCHANGED runnerRest

(***************************************************************************)
(* The database schema: documents and document_chunks                      *)
(***************************************************************************)
MaxDocuments == 2     \* values the sequence of documents.id hands out
MaxChunks == 3        \* values the sequence of document_chunks.id hands out

\* a nullable INTEGER column: {} is NULL, {n} the value n
SqlNull == {}
Titles == {"doc"}
ChunkIndexes == {0, 1}
DocumentIdArgs == {SqlNull} \cup {{n} : n \in 1..MaxDocuments}

DbFresh ==
    /\ documents = {}
    /\ document_chunks = {}
    /\ documents_id_seq = 0
    /\ document_chunks_id_seq = 0

\* document_id INTEGER REFERENCES documents(id): a NULL satisfies the
\* constraint, any other value must be the id of a row of documents
ForeignKeyHolds(document_id, docs) ==
    \/ document_id = SqlNull
    \/ \E d \in docs : document_id = {d.id}

\* ON DELETE CASCADE: the rows of document_chunks that reference the row
ReferencingRows(chunks, id) == {c \in chunks : c.document_id = {id}}

\* INSERT INTO documents (title) VALUES (...)
insert_document(title) ==
    /\ documents_id_seq < MaxDocuments
    /\ documents_id_seq' = documents_id_seq + 1
    /\ documents' = documents \cup {[id |-> documents_id_seq', title |-> title]}
    /\ UNCHANGED <<document_chunks, document_chunks_id_seq>>
    /\ UNCHANGED dbRest

\* INSERT INTO document_chunks (document_id, chunk_index, content) VALUES (...)
\* the id is taken from the sequence before the constraints are checked, so
\* a rejected insert consumes it too
insert_chunk(document_id, chunk_index) ==
    /\ document_chunks_id_seq < MaxChunks
    /\ document_chunks_id_seq' = document_chunks_id_seq + 1
    /\ document_chunks' =
          IF ForeignKeyHolds(document_id, documents)
          THEN document_chunks \cup {[id |-> document_chunks_id_seq',
                                      document_id |-> document_id,
                                      chunk_index |-> chunk_index]}
          ELSE document_chunks
    /\ UNCHANGED <<documents, documents_id_seq>>
    /\ UNCHANGED dbRest

\* DELETE FROM documents WHERE id = ...
delete_document(id) ==
    /\ \E d \in documents : d.id = id
    /\ documents' = {d \in documents : d.id # id}
    /\ document_chunks' = document_chunks \ ReferencingRows(document_chunks, id)
    /\ UNCHANGED <<documents_id_seq, document_chunks_id_seq>>
    /\ UNCHANGED dbRest

\* DELETE FROM document_chunks WHERE id = ...
delete_chunk(id) ==
    /\ \E c \in document_chunks : c.id = id
    /\ document_chunks' = {c \in document_chunks : c.id # id}
    /\ UNCHANGED <<documents, documents_id_seq, document_chunks_id_seq>>
    /\ UNCHANGED dbRest

(***************************************************************************)
(* pages/UploadDocument: the PDF tab                                       *)
(***************************************************************************)
Unset == 0 - 1        \* undefined: a form field that holds no value

ChunkSizeChoices == {100, 2000, 5000}     \* positions of the size slider
OverlapChoices == {0, 50, 500}            \* positions of the overlap slider

\* form.getFieldValue(name)
getFieldValue(store, name) == IF name \in DOMAIN store THEN store[name] ELSE Unset

\* value || fallback on a number or undefined
OrDefault(value, fallback) == IF value = Unset \/ value = 0 THEN fallback ELSE value

\* the field of the form store that uploadProps reads the overlap from
OverlapField == "overlap"

\* uploadProps.data, evaluated by a render of UploadDocument
RenderData(intelligent, store) ==
    [chunking_strategy |-> IF intelligent THEN "intelligent" ELSE "fixed_size",
     chunk_size |-> OrDefault(getFieldValue(store, "chunkSize"), 1000),
     overlap |-> OrDefault(getFieldValue(store, OverlapField), 200)]

\* Form.Item initialValue: a field that mounts without a value gets it
RegisterField(store, name, initialValue) ==
    IF store[name] = Unset THEN [store EXCEPT ![name] = initialValue] ELSE store

UploadFresh ==
    /\ useIntelligentChunking = TRUE
    /\ uploading = FALSE
    /\ formStore = [chunkSize |-> Unset, overlapSize |-> Unset]
    /\ uploadData = RenderData(TRUE, [chunkSize |-> Unset, overlapSize |-> Unset])
    /\ lastUpload = [sent |-> FALSE]

\* the Switch's onChange: the state change renders UploadDocument, which
\* builds uploadProps from the form store; the two slider items mount (and
\* register their initial values) or unmount (their values are preserved)
\* below that render
setUseIntelligentChunking(checked) ==
    /\ checked # useIntelligentChunking
    /\ useIntelligentChunking' = checked
    /\ uploadData' = RenderData(checked, formStore)
    /\ formStore' = IF checked THEN formStore
                    ELSE RegisterField(RegisterField(formStore, "chunkSize", 1000),
                                       "overlapSize", 200)
    /\ UNCHANGED <<uploading, lastUpload>>
    /\ UNCHANGED uploadRest

\* moving a slider: the form store takes the value and the form item renders
\* again; UploadDocument itself does not
setFieldValue(name, value) ==
    /\ ~useIntelligentChunking
    /\ formStore[name] # value
    /\ formStore' = [formStore EXCEPT ![name] = value]
    /\ UNCHANGED <<useIntelligentChunking, uploading, uploadData, lastUpload>>
    /\ UNCHANGED uploadRest

\* a file is dropped on the Dragger: beforeUpload, then the POST to
\* /api/v1/upload-pdf with the data of the rendered props, then onChange
\* with status 'uploading', whose state changes render the page again
startUpload(isPDF) ==
    /\ ~uploading
    /\ IF isPDF
       THEN /\ lastUpload' = [sent |-> TRUE, data |-> uploadData,
                              intelligent |-> useIntelligentChunking,
                              chunkSize |-> formStore.chunkSize,
                              overlapSize |-> formStore.overlapSize]
            /\ uploading' = TRUE
            /\ uploadData' = RenderData(useIntelligentChunking, formStore)
       ELSE /\ lastUpload' = [sent |-> FALSE]
            /\ UNCHANGED <<uploading, uploadData>>
    /\ UNCHANGED <<useIntelligentChunking, formStore>>
    /\ UNCHANGED uploadRest

\* onChange with status 'done' or 'error'
uploadEnds(status) ==
    /\ uploading
    /\ uploading' = FALSE
    /\ uploadData' = RenderData(useIntelligentChunking, formStore)
    /\ UNCHANGED <<useIntelligentChunking, formStore, lastUpload>>
    /\ UNCHANGED uploadRest

(***************************************************************************)
(* The legacy client: login, logout, checkAuth, fetchWithAuth              *)
(***************************************************************************)
LegacyUsernames == {"admin", "user1", "guan-li-yuan (non-Latin-1)"}
LegacyPasswords == {"pw", ""}

\* btoa(text): the base64 text, or InvalidCharacterError for a character
\* outside Latin-1
Btoa(text) ==
    IF \E u \in {"guan-li-yuan (non-Latin-1)"}, p \in LegacyPasswords : text = u \o ":" \o p
    THEN [ok |-> FALSE]
    ELSE [ok |-> TRUE, value |-> "base64<" \o text \o ">"]

\* what a request to /api/v1/database-status comes back with: the documented
\* answers (200 with status "connected", 500 with a detail), a 200 whose
\* status is "ok", a body that is not JSON, and no response at all
DbStatusResponses ==
    { [arrived |-> TRUE, http |-> 200, json |-> TRUE, status |-> "connected"],
      [arrived |-> TRUE, http |-> 200, json |-> TRUE, status |-> "ok"],
      [arrived |-> TRUE, http |-> 500, json |-> TRUE, status |-> "<undefined>"],
      [arrived |-> TRUE, http |-> 502, json |-> FALSE, status |-> "<undefined>"],
      [arrived |-> FALSE, http |-> 0, json |-> FALSE, status |-> "<undefined>"] }

\* the status the login handler treats as a reachable database
ExpectedDbStatus(status) == status = "ok"

LegacyFresh ==
    /\ gemini_credentials = Absent
    /\ legacyView = "auth"
    /\ legacyLast = [op |-> "none"]

\* login(username, password): the fetch and its then / catch handlers
legacy_login(username, password, response) ==
    /\ IF response.arrived /\ response.json /\ ExpectedDbStatus(response.status)
          /\ Btoa(username \o ":" \o password).ok
       THEN /\ gemini_credentials' = Btoa(username \o ":" \o password).value
            /\ legacyView' = "app"
       ELSE UNCHANGED <<gemini_credentials, legacyView>>
    /\ legacyLast' = [op |-> "login", username |-> username, password |-> password,
                      response |-> response,
                      alert |-> IF ~(response.arrived /\ response.json)
                                THEN "connection failed"
                                ELSE IF ~ExpectedDbStatus(response.status)
                                THEN "database connection failed"
                                ELSE IF ~Btoa(username \o ":" \o password).ok
                                THEN "connection failed"
                                ELSE "login succeeded"]
    /\ UNCHANGED legacyRest

\* logout()
legacy_logout ==
    /\ gemini_credentials' = Absent
    /\ legacyView' = "auth"
    /\ legacyLast' = [op |-> "logout"]
    /\ UNCHANGED legacyRest

\* fetchWithAuth(url, options): http is the status of the response, 0 when
\* the fetch is rejected
fetchWithAuth(url, http) ==
    /\ IF gemini_credentials = Absent
       THEN /\ legacyView' = "auth"
            /\ legacyLast' = [op |-> "fetchWithAuth", url |-> url, sent |-> FALSE]
            /\ UNCHANGED gemini_credentials
       ELSE /\ legacyLast' = [op |-> "fetchWithAuth", url |-> url, sent |-> TRUE,
                              authorization |-> "Basic " \o gemini_credentials,
                              stored |-> gemini_credentials,
                              http |-> http]
            /\ IF http = 401
               THEN /\ gemini_credentials' = Absent
                    /\ legacyView' = "auth"
               ELSE UNCHANGED <<gemini_credentials, legacyView>>
    /\ UNCHANGED legacyRest

\* checkAuth(), called when the page has loaded: the application view for a
\* stored token, and a logout when the health request is rejected or not ok
checkAuth(http) ==
    /\ IF gemini_credentials = Absent
       THEN /\ legacyView' = "auth"
            /\ UNCHANGED gemini_credentials
       ELSE IF http \in {200}
            THEN /\ legacyView' = "app"
                 /\ UNCHANGED gemini_credentials
            ELSE /\ legacyView' = "auth"
                 /\ gemini_credentials' = Absent
    /\ legacyLast' = [op |-> "checkAuth"]
    /\ UNCHANGED legacyRest

(***************************************************************************)
(* pages/DocumentList.jsx: the table of documents, its pager, its search   *)
(* box and the delete button of a row.  A list of rows is modelled by the  *)
(* request whose response carried it.                                      *)
(***************************************************************************)
MaxListRequests == 3      \* list requests issued in one behaviour
MaxPendingDeletes == 1    \* delete requests awaiting their response at once

PageSizeOptions == {10, 20}            \* two of ['10', '20', '50', '100']
SearchTerms == {"", "a.pdf"}           \* what the user types in the search box
StoredSources == {"a.pdf", "b.pdf"}

InitialPagination == [current |-> 1, pageSize |-> 20, total |-> 0]
NoRows == [request |-> 0, source |-> "", offset |-> 0, limit |-> 0, total |-> 0]
NoListRequest ==
    [id |-> 0, page |-> 0, limit |-> 0, source |-> "", outcome |-> "none", notice |-> ""]

\* response.data.total for a source filter; the empty filter selects all
Total(store, source) ==
    IF source = "" THEN store["a.pdf"] + store["b.pdf"]
    ELSE IF source \in DOMAIN store THEN store[source] ELSE 0

\* the pages the pager of the table offers
PageCount(total, pageSize) ==
    IF total = 0 THEN 1 ELSE ((total + pageSize) - 1) \div pageSize

ListFresh ==
    /\ listRows = NoRows
    /\ pagination = InitialPagination
    /\ searchTerm = ""
    /\ listLoading = TRUE
    /\ listRequests = <<>>
    /\ deleteRequests = <<>>
    /\ stored = [s \in StoredSources |-> IF s = "a.pdf" THEN 12 ELSE 13]
    /\ lastList = NoListRequest

\* fetchDocuments up to its await
fetchDocuments(page, limit, source, notice) ==
    /\ lastList.id < MaxListRequests
    /\ listLoading' = TRUE
    /\ listRequests' = Append(listRequests,
            [id |-> lastList.id + 1, page |-> page, limit |-> limit,
             offset |-> (page - 1) * limit, source |-> source])
    /\ lastList' = [id |-> lastList.id + 1, page |-> page, limit |-> limit,
                    source |-> source, outcome |-> "pending", notice |-> notice]

\* useEffect(() => fetchDocuments(...), [])
DocumentListMount ==
    /\ lastList.id = 0
    /\ fetchDocuments(pagination.current, pagination.pageSize, searchTerm, lastList.notice)
    /\ UNCHANGED <<listRows, pagination, searchTerm, deleteRequests, stored>>
    /\ UNCHANGED listRest

\* the rest of fetchDocuments when the response arrives
fetchResolved(i) ==
    /\ i \in 1..Len(listRequests)
    /\ LET r == listRequests[i]
           total == Total(stored, r.source)
       IN  /\ listRows' = [request |-> r.id, source |-> r.source, offset |-> r.offset,
                           limit |-> r.limit, total |-> total]
           /\ pagination' = [pagination EXCEPT !.current = r.page,
                                               !.pageSize = r.limit,
                                               !.total = total]
           /\ lastList' = IF r.id = lastList.id
                          THEN [lastList EXCEPT !.outcome = "ok"] ELSE lastList
    /\ listLoading' = FALSE
    /\ listRequests' = RemoveAt(listRequests, i)
    /\ UNCHANGED <<searchTerm, deleteRequests, stored>>
    /\ UNCHANGED listRest

\* the catch and finally blocks of fetchDocuments
fetchRejected(i) ==
    /\ i \in 1..Len(listRequests)
    /\ lastList' = IF listRequests[i].id = lastList.id
                   THEN [lastList EXCEPT !.outcome = "failed", !.notice = "fetchError"]
                   ELSE [lastList EXCEPT !.notice = "fetchError"]
    /\ listLoading' = FALSE
    /\ listRequests' = RemoveAt(listRequests, i)
    /\ UNCHANGED <<listRows, pagination, searchTerm, deleteRequests, stored>>
    /\ UNCHANGED listRest

\* onChange of the table; the table is covered by its spinner while loading
handleTableChange(newPagination) ==
    /\ lastList.id > 0
    /\ ~listLoading
    /\ newPagination.total = pagination.total
    /\ newPagination.current \in 1..PageCount(pagination.total, newPagination.pageSize)
    /\ newPagination # pagination
    /\ pagination' = newPagination
    /\ fetchDocuments(newPagination.current, newPagination.pageSize, searchTerm, lastList.notice)
    /\ UNCHANGED <<listRows, searchTerm, deleteRequests, stored>>
    /\ UNCHANGED listRest

\* onSearch of the search box, which stays usable while the table loads
handleSearch(value) ==
    /\ lastList.id > 0
    /\ searchTerm' = value
    /\ fetchDocuments(1, pagination.pageSize, value, lastList.notice)
    /\ UNCHANGED <<listRows, pagination, deleteRequests, stored>>
    /\ UNCHANGED listRest

\* handleDelete up to its await, for a row of the given source; the values
\* its refetch uses are those of the render the button belongs to
handleDelete(source) ==
    /\ lastList.id > 0
    /\ ~listLoading
    /\ listRows.total > 0
    /\ listRows.source \in {"", source}
    /\ stored[source] > 0
    /\ Len(deleteRequests) < MaxPendingDeletes
    /\ deleteRequests' = Append(deleteRequests,
            [docSource |-> source, page |-> pagination.current,
             limit |-> pagination.pageSize, source |-> searchTerm])
    /\ UNCHANGED <<listRows, pagination, searchTerm, listLoading, listRequests,
                   stored, lastList>>
    /\ UNCHANGED listRest

\* the rest of handleDelete when the server has deleted the document
deleteResolved(i) ==
    /\ i \in 1..Len(deleteRequests)
    /\ LET d == deleteRequests[i]
       IN  /\ stored' = [stored EXCEPT ![d.docSource] = @ - 1]
           /\ fetchDocuments(d.page, d.limit, d.source, "deleteSuccess")
    /\ deleteRequests' = RemoveAt(deleteRequests, i)
    /\ UNCHANGED <<listRows, pagination, searchTerm>>
    /\ UNCHANGED listRest

\* the catch block of handleDelete
deleteRejected(i) ==
    /\ i \in 1..Len(deleteRequests)
    /\ deleteRequests' = RemoveAt(deleteRequests, i)
    /\ lastList' = [lastList EXCEPT !.notice = "deleteError"]
    /\ UNCHANGED <<listRows, pagination, searchTerm, listLoading, listRequests,
                   stored>>
    /\ UNCHANGED listRest

(***************************************************************************)
(* Specifications                                                          *)
(***************************************************************************)
AuthFresh ==
    /\ user = NullUser
    /\ authLoading = TRUE
    /\ error = ""

\* the module state of cacheService.js when the bundle is loaded
CacheFresh ==
    /\ cache = EmptyCache
    /\ nowMs = 0
    /\ server = [u \in Urls |-> "v1"]
    /\ pendingGets = {}
    /\ lastWrapper = [op |-> "none"]

\* the host before the control script is used
SvcFresh ==
    /\ sec = 0
    /\ tool = "lsof"
    /\ service = "backend"
    /\ dirExists = TRUE
    /\ alive = {}
    /\ starting = {}
    /\ nextPid = StalePid + 1
    /\ portOwner = NoPid
    /\ pidFile = NoPid
    /\ sidecar = NoLog
    /\ logs = [ts \in 0..MaxSec |-> NoLogFile]
    /\ currentLink = NoLog
    /\ linkPath = "absolute"
    /\ runs = [r \in RunIds |-> IdleRun]
    /\ invoked = 0

ExtFresh == CacheFresh /\ SvcFresh /\ RunnerFresh /\ DbFresh /\ UploadFresh /\ LegacyFresh
            /\ ListFresh

AsstFresh ==
    /\ mounted = FALSE
    /\ loading = FALSE
    /\ prompt = ""
    /\ conversations = <<>>
    /\ settings = DefaultSettings
    /\ errorMessage = ""
    /\ importModalVisible = FALSE
    /\ savePending = FALSE
    /\ inFlight = <<>>
    /\ exportedFile = NoFile
    /\ exportedState = [none |-> TRUE]
    /\ clock = 0
    /\ lastRequest = NoRequest
    /\ lastCall = NoCall

\* the storage an earlier session may have left for the AuthProvider
StoredSessions ==
    { [user |-> Absent, name |-> Absent, password |-> Absent],
      [user |-> StringifyUser([username |-> "admin"]), name |-> "admin",
       password |-> "Pa$$w0rd"],
      [user |-> "{not json", name |-> Absent, password |-> Absent] }

\* the AuthProvider, with the assistant page not opened
InitAuth ==
    /\ env \in EnvValues
    /\ lang \in Languages
    /\ AuthFresh
    /\ \E st \in StoredSessions :
          /\ lsUser = st.user
          /\ lsApiUsername = st.name
          /\ lsApiPassword = st.password
    /\ lsConversations = NoStorage
    /\ lsSettings = NoStorage
    /\ AsstFresh
    /\ ExtFresh

NextAuth ==
    \/ AuthMount
    \/ \E username \in Usernames, password \in Passwords : login(username, password)
    \/ logout
    \/ \E value \in Languages : changeLanguage(value)
    \/ \E c \in CallSites : IssueRequest(c)
    \/ Reload

SpecAuth == InitAuth /\ [][NextAuth]_vars

\* the AuthProvider on a browser whose local storage is empty
InitSession ==
    /\ InitAuth
    /\ lsUser = Absent
    /\ lsApiUsername = Absent
    /\ lsApiPassword = Absent

SpecSession == InitSession /\ [][NextAuth]_vars

\* the assistant page, opened by a logged-in user
InitAssistant ==
    /\ env = [kind |-> "absent"]
    /\ lang = "zh"
    /\ user = [username |-> "admin"]
    /\ authLoading = FALSE
    /\ error = ""
    /\ lsUser = StringifyUser([username |-> "admin"])
    /\ lsApiUsername = "admin"
    /\ lsApiPassword = "Pa$$w0rd"
    /\ lsConversations \in StoredHistories
    /\ lsSettings = NoStorage
    /\ AsstFresh
    /\ ExtFresh

\* the actions of the conversation: mount, save effect, input, send, clear
NextConversation ==
    \/ Mount
    \/ \E first \in SetItemOutcomes :
         \E second \in IF first = "QuotaExceededError"
                       THEN {"ok", "QuotaExceededError"} ELSE {"none"} :
            SaveConversationsEffect(first, second)
    \/ \E text \in PromptTexts : setPrompt(text)
    \/ handleSend
    \/ \E i \in 1..Len(inFlight), data \in Responses : handleSendResolved(i, data)
    \/ \E i \in 1..Len(inFlight), cause \in RejectionCauses : handleSendRejected(i, cause)
    \/ clearConversation
    \/ showImportModal
    \/ cancelImport

NextAssistant ==
    \/ NextConversation
    \/ \E file \in ImportFiles : handleFileChange(file)

SpecAssistant == InitAssistant /\ [][NextAssistant]_vars

\* the conversation on a fresh browser, with the steps that happen without
\* the user or the server: React runs a scheduled effect, and a request
\* whose configuration sets a timeout is rejected when it elapses
InitSend ==
    /\ InitAssistant
    /\ lsConversations = NoStorage

SaveEffectRuns ==
    \E first \in SetItemOutcomes :
      \E second \in IF first = "QuotaExceededError"
                    THEN {"ok", "QuotaExceededError"} ELSE {"none"} :
         SaveConversationsEffect(first, second)

TimeoutElapses == \E i \in 1..Len(inFlight) : handleSendRejected(i, "timeout")

SpecSend ==
    /\ InitSend
    /\ [][NextConversation]_vars
    /\ WF_vars(SaveEffectRuns)
    /\ WF_vars(TimeoutElapses)

\* the assistant page with a short history, for export, import and settings
TransferNewMessages == 1      \* messages that can still be created
ShortLengths == {2}

InitTransfer ==
    /\ env = [kind |-> "absent"]
    /\ lang = "zh"
    /\ user = [username |-> "admin"]
    /\ authLoading = FALSE
    /\ error = ""
    /\ lsUser = StringifyUser([username |-> "admin"])
    /\ lsApiUsername = "admin"
    /\ lsApiPassword = "Pa$$w0rd"
    /\ lsConversations \in {JsonStringify(OldHistory(n)) : n \in ShortLengths}
    /\ lsSettings \in StoredSettings
    /\ mounted = FALSE
    /\ loading = FALSE
    /\ prompt = ""
    /\ conversations = <<>>
    /\ settings = DefaultSettings
    /\ errorMessage = ""
    /\ importModalVisible = FALSE
    /\ savePending = FALSE
    /\ inFlight = <<>>
    /\ exportedFile = NoFile
    /\ exportedState = [none |-> TRUE]
    /\ clock = MaxClock - TransferNewMessages
    /\ lastRequest = NoRequest
    /\ lastCall = NoCall
    /\ ExtFresh

NextTransfer ==
    \/ Mount
    \/ \E first \in SetItemOutcomes :
         \E second \in IF first = "QuotaExceededError"
                       THEN {"ok", "QuotaExceededError"} ELSE {"none"} :
            SaveConversationsEffect(first, second)
    \/ clearConversation
    \/ exportConversations
    \/ showImportModal
    \/ cancelImport
    \/ \E file \in RejectedFiles \cup {EmptyArrayFile, exportedFile} : handleFileChange(file)
    \/ \E v \in SourceChoices : setSelectedSource(v)
    \/ \E v \in BOOLEAN : setUseContext(v)
    \/ \E v \in MaxDocsChoices : setMaxContextDocs(v)
    \/ \E v \in BOOLEAN : setForceUseDocuments(v)

SpecTransfer == InitTransfer /\ [][NextTransfer]_vars

\* the assistant page over reloads, in a production build (Mount) and in a
\* development build (MountStrict), from a browser without saved settings
InitSettings ==
    /\ InitTransfer
    /\ lsSettings = NoStorage

NextSettings ==
    \/ AuthMount
    \/ Mount
    \/ MountStrict
    \/ Reload
    \/ \E first \in SetItemOutcomes :
         \E second \in IF first = "QuotaExceededError"
                       THEN {"ok", "QuotaExceededError"} ELSE {"none"} :
            SaveConversationsEffect(first, second)
    \/ \E v \in SourceChoices : setSelectedSource(v)
    \/ \E v \in BOOLEAN : setUseContext(v)
    \/ \E v \in MaxDocsChoices : setMaxContextDocs(v)
    \/ \E v \in BOOLEAN : setForceUseDocuments(v)

SpecSettings == InitSettings /\ [][NextSettings]_vars

\* the assistant page with its settings controls and its send button, over
\* reloads of a production build
InitContext ==
    /\ InitSend
    /\ lsSettings = NoStorage

NextContext ==
    \/ AuthMount
    \/ Mount
    \/ Reload
    \/ SaveEffectRuns
    \/ \E v \in SourceChoices : setSelectedSource(v)
    \/ \E v \in BOOLEAN : setUseContext(v)
    \/ \E v \in MaxDocsChoices : setMaxContextDocs(v)
    \/ \E v \in BOOLEAN : setForceUseDocuments(v)
    \/ \E text \in PromptTexts : setPrompt(text)
    \/ handleSend
    \/ \E i \in 1..Len(inFlight), data \in Responses : handleSendResolved(i, data)
    \/ \E i \in 1..Len(inFlight), cause \in RejectionCauses : handleSendRejected(i, cause)

SpecContext == InitContext /\ [][NextContext]_vars

\* the browser with the application not opened
ClientClosed ==
    /\ env = [kind |-> "absent"]
    /\ lang = "zh"
    /\ AuthFresh
    /\ lsUser = Absent
    /\ lsApiUsername = Absent
    /\ lsApiPassword = Absent
    /\ lsConversations = NoStorage
    /\ lsSettings = NoStorage
    /\ AsstFresh

\* the HTTP wrapper and its cache, called from a page of a logged-in user
InitCache == InitSend

\* the control script on a host where an earlier session may have left a
\* process on the port and a pid file naming it
InitService ==
    /\ ClientClosed
    /\ CacheFresh
    /\ RunnerFresh
    /\ DbFresh
    /\ UploadFresh
    /\ LegacyFresh
    /\ ListFresh
    /\ sec = 0
    /\ tool \in Tools
    /\ service \in Services
    /\ dirExists \in IF service = "frontend" THEN BOOLEAN ELSE {TRUE}
    /\ alive \in {{}, {StalePid}}
    /\ starting = {}
    /\ nextPid = StalePid + 1
    /\ portOwner = IF StalePid \in alive THEN StalePid ELSE NoPid
    /\ pidFile \in {NoPid, StalePid}
    /\ sidecar = NoLog
    /\ logs = [ts \in 0..MaxSec |-> NoLogFile]
    /\ currentLink = NoLog
    /\ linkPath = "absolute"
    /\ runs = [r \in RunIds |-> IdleRun]
    /\ invoked = 0

NextService ==
    \/ \E r \in RunIds, cmd \in Commands : Invoke(r, cmd)
    \/ \E r \in RunIds, visible \in BOOLEAN, outcome \in SignalOutcomes :
          check_and_clean_port(r, visible, outcome)
    \/ \E r \in RunIds : check_frontend_dir(r)
    \/ \E r \in RunIds : check_already_running(r)
    \/ \E r \in RunIds : write_log_header(r)
    \/ \E r \in RunIds : launch(r)
    \/ \E r \in RunIds : confirm_started(r)
    \/ \E r \in RunIds, outcome \in SignalOutcomes : stop_service(r, outcome)
    \/ \E r \in RunIds, outcome \in SignalOutcomes : stop_after_grace(r, outcome)
    \/ \E r \in RunIds : stop_finish(r)
    \/ \E p \in starting : ServiceBinds(p)
    \/ \E p \in alive : ProcessExits(p)
    \/ SecondPasses

SpecService == InitService /\ [][NextService]_vars

\* the logs subcommand on a host where earlier starts have left log files
\* and possibly the link to the newest of them
InitLogs ==
    /\ ClientClosed
    /\ CacheFresh
    /\ RunnerFresh
    /\ DbFresh
    /\ UploadFresh
    /\ LegacyFresh
    /\ ListFresh
    /\ sec = 0
    /\ tool = "lsof"
    /\ service \in Services
    /\ dirExists = TRUE
    /\ alive = {}
    /\ starting = {}
    /\ nextPid = StalePid + 1
    /\ portOwner = NoPid
    /\ pidFile = NoPid
    /\ sidecar = NoLog
    /\ logs \in [0..MaxSec -> {NoLogFile, [exists |-> TRUE, run |-> 1]}]
    /\ currentLink \in {NoLog, LatestLog(logs)}
    /\ linkPath = "absolute"
    /\ runs = [r \in RunIds |-> IdleRun]
    /\ invoked = 0

NextLogs ==
    \/ \E r \in RunIds : Invoke(r, "logs")
    \/ \E r \in RunIds : show_logs(r)
    \/ \E ts \in 0..MaxSec : RemoveLog(ts)

SpecLogs == InitLogs /\ [][NextLogs]_vars

\* one run of the API test runner
InitRunner ==
    /\ ClientClosed
    /\ ExtFresh

NextRunner ==
    \/ \E ok \in BOOLEAN : runner_cd(ok)
    \/ \E present \in BOOLEAN : runner_load_env(present)
    \/ \E pip \in PipCommands, status \in {NotRun, 0, 1} : runner_install_deps(pip, status)
    \/ \E installed \in BOOLEAN, endpoint \in {"answers", "unreachable"},
          status \in CurlStatuses, http \in HttpStatuses \cup {NotRun} :
          runner_health_check(installed, endpoint, status, http)
    \/ \E status \in PytestStatuses : runner_pytest(status)
    \/ runner_exit

SpecRunner == InitRunner /\ [][NextRunner]_vars

\* the database after init.sql, under inserts and deletes
InitDb ==
    /\ ClientClosed
    /\ ExtFresh

NextDb ==
    \/ \E title \in Titles : insert_document(title)
    \/ \E document_id \in DocumentIdArgs, chunk_index \in ChunkIndexes :
          insert_chunk(document_id, chunk_index)
    \/ \E id \in 1..MaxDocuments : delete_document(id)
    \/ \E id \in 1..MaxChunks : delete_chunk(id)

SpecDb == InitDb /\ [][NextDb]_vars

\* the upload page, PDF tab
InitUpload ==
    /\ ClientClosed
    /\ ExtFresh

NextUpload ==
    \/ \E checked \in BOOLEAN : setUseIntelligentChunking(checked)
    \/ \E value \in ChunkSizeChoices : setFieldValue("chunkSize", value)
    \/ \E value \in OverlapChoices : setFieldValue("overlapSize", value)
    \/ \E isPDF \in BOOLEAN : startUpload(isPDF)
    \/ \E status \in {"done", "error"} : uploadEnds(status)

SpecUpload == InitUpload /\ [][NextUpload]_vars

\* the legacy client on a browser without a stored token
InitLegacy ==
    /\ ClientClosed
    /\ ExtFresh

LegacyUrls == {"/api/v1/documents", "/api/v1/integration"}

NextLegacy ==
    \/ \E username \in LegacyUsernames, password \in LegacyPasswords,
          response \in DbStatusResponses : legacy_login(username, password, response)
    \/ legacy_logout
    \/ \E url \in LegacyUrls, http \in {0, 200, 401, 500} : fetchWithAuth(url, http)
    \/ \E http \in {0, 200, 401, 500} : checkAuth(http)

SpecLegacy == InitLegacy /\ [][NextLegacy]_vars

\* the document list page, from its first render
InitList ==
    /\ ClientClosed
    /\ ExtFresh

NextList ==
    \/ DocumentListMount
    \/ \E i \in 1..Len(listRequests) : fetchResolved(i)
    \/ \E i \in 1..Len(listRequests) : fetchRejected(i)
    \/ \E pageSize \in PageSizeOptions :
       \E current \in 1..PageCount(pagination.total, pageSize) :
          handleTableChange([current |-> current, pageSize |-> pageSize,
                             total |-> pagination.total])
    \/ \E value \in SearchTerms : handleSearch(value)
    \/ \E source \in StoredSources : handleDelete(source)
    \/ \E i \in 1..Len(deleteRequests) : deleteResolved(i)
    \/ \E i \in 1..Len(deleteRequests) : deleteRejected(i)

SpecList == InitList /\ [][NextList]_vars

NextCache ==
    \/ \E a \in CallArgs, useCache \in BOOLEAN, cacheTTL \in TtlArgs :
          get(a.url, a.params, useCache, cacheTTL)
    \/ \E call \in pendingGets : getResolved(call)
    \/ \E call \in pendingGets : getRejected(call)
    \/ \E url \in Urls, data \in Payloads : post(url, data)
    \/ \E url \in Urls, data \in Payloads : put(url, data)
    \/ \E url \in Urls, data \in Payloads : del(url, data)
    \/ \E url \in Urls, data \in Payloads : uploadFile(url, data)
    \/ \E prefix \in Prefixes : invalidateCache(prefix)
    \/ \E key \in CacheKeys : clearCache(key)
    \/ clearAllCache
    \/ Tick

SpecCache == InitCache /\ [][NextCache]_vars

\* the wrapper with what happens without a caller: time passes, and every
\* request of apiClient ends, by its response or by the 30000 ms timeout
RequestEnds == \E call \in pendingGets : getResolved(call) \/ getRejected(call)

SpecCacheFair ==
    /\ InitCache
    /\ [][NextCache]_vars
    /\ WF_vars(Tick)
    /\ WF_vars(RequestEnds)


(***************************************************************************)
(* Properties                                                              *)
(***************************************************************************)
\* the messages a stored value holds; none when the key is absent
Persisted == IF lsConversations = NoStorage THEN <<>> ELSE lsConversations.json

\* the n most recent messages of a list, oldest first
MostRecent(list, n) ==
    LET k == IF Len(list) < n THEN Len(list) ELSE n
    IN  [i \in 1..k |-> list[Len(list) - k + i]]

\* the last step was a login with a known username and another password
WrongPasswordLogin(call) ==
    /\ call.op = "login"
    /\ call.username \in CredentialKeys(env)
    /\ call.password # getCredentialsFromEnv(env).map[call.username]

\* C1: a login with a username of the resolved credential map and a password
\* other than the mapped one returns false, leaves a non-empty error and
\* leaves the keys user, api_username and api_password as they were.
C1_WrongPasswordRejected ==
    [][WrongPasswordLogin(lastCall') =>
          /\ lastCall'.result = "false"
          /\ error' # ""
          /\ lsUser' = lsUser
          /\ lsApiUsername' = lsApiUsername
          /\ lsApiPassword' = lsApiPassword]_vars

\* a failed login of a known user while an earlier session is still stored
C1_Witness ==
    /\ WrongPasswordLogin(lastCall)
    /\ lastCall.result = "false"
    /\ error # ""
    /\ lsApiUsername = "admin"

\* the last step was a login with a pair of the resolved credential map
MatchingLogin(call) ==
    /\ call.op = "login"
    /\ call.username \in CredentialKeys(env)
    /\ call.password = getCredentialsFromEnv(env).map[call.username]

\* C2: a login with a pair of the resolved credential map returns true, sets
\* the user to {username}, stores {username} under user and the raw pair
\* under api_username and api_password, and leaves the error empty.
C2_MatchingLoginStored ==
    MatchingLogin(lastCall) =>
        /\ lastCall.result = "true"
        /\ user = [username |-> lastCall.username]
        /\ lsUser = "{\"username\":\"" \o lastCall.username \o "\"}"
        /\ lsApiUsername = lastCall.username
        /\ lsApiPassword = lastCall.password
        /\ error = ""

\* a successful login right after a failed attempt had set the error
C2_Witness ==
    /\ MatchingLogin(lastCall)
    /\ lastCall.result = "true"
    /\ lastCall.errorBefore # ""
    /\ error = ""

\* C3: a request issued while a username/password pair is stored carries
\* HTTP Basic credentials built from that pair, and a request issued while
\* none is stored carries none.
C3_RequestsCarryStoredCredentials ==
    lastRequest.issued =>
        IF lastRequest.storedUsername # Absent
        THEN lastRequest.credentials =
                BasicCredentials(lastRequest.storedUsername, lastRequest.storedPassword)
        ELSE ~lastRequest.credentials.present

\* the last step was a run of the save effect that wrote the history
SaveWrote(call) ==
    /\ call.op = "saveEffect"
    /\ \/ call.first = "ok"
       \/ call.first = "QuotaExceededError" /\ call.second = "ok"

\* C4 as stated: after every save the persisted history holds at most 50
\* messages and is the 50 most recent of the list when the list holds more.
C4_EverySaveKeepsFifty ==
    SaveWrote(lastCall) =>
        /\ Len(Persisted) <= 50
        /\ Len(conversations) > 50 => Persisted = MostRecent(conversations, 50)

\* C4 as amended: the persisted history never holds more than 50 messages,
\* and after a save whose write did not fail it is the 50 most recent
\* messages of the list when the list holds more than 50.
C4_SaveKeepsFiftyUnlessQuota ==
    /\ Len(Persisted) <= 50
    /\ (lastCall.op = "saveEffect" /\ lastCall.first = "ok") =>
          (Len(conversations) > 50 => Persisted = MostRecent(conversations, 50))

\* the save after the 51st message
C4_Witness ==
    /\ lastCall.op = "saveEffect"
    /\ lastCall.first = "ok"
    /\ Len(conversations) = 51
    /\ conversations[51].role = "user"
    /\ Len(Persisted) = 50
    /\ Persisted[50] = conversations[51]

\* C5: importing the exported file yields the message list and the four
\* settings the export was taken from.
C5_ExportImportRoundTrip ==
    (lastCall.op = "handleFileChange" /\ lastCall.own) =>
        /\ lastCall.accepted
        /\ conversations = exportedState.conversations
        /\ settings = exportedState.settings

\* an import of the exported file after the list and every setting changed
C5_Witness ==
    /\ lastCall.op = "handleFileChange"
    /\ lastCall.own
    /\ lastCall.listDiffered
    /\ lastCall.settingsBefore.selectedSource # settings.selectedSource
    /\ lastCall.settingsBefore.useContext # settings.useContext
    /\ lastCall.settingsBefore.maxContextDocs # settings.maxContextDocs
    /\ lastCall.settingsBefore.forceUseDocuments # settings.forceUseDocuments
    /\ conversations = exportedState.conversations
    /\ settings = exportedState.settings

\* the file is JSON text whose conversations field is an array
WellFormedFile(file) ==
    /\ "json" \in DOMAIN file.text
    /\ file.text.json.t = "object"
    /\ "conversations" \in DOMAIN file.text.json
    /\ file.text.json.conversations.t = "array"

\* C6: an import of a file that is not JSON or whose conversations field is
\* not an array is rejected with an error notice and leaves the list and the
\* settings unchanged, in memory and in storage.
C6_MalformedImportRejected ==
    [][(lastCall'.op = "handleFileChange" /\ ~WellFormedFile(lastCall'.file)) =>
          /\ ~lastCall'.accepted
          /\ lastCall'.notice \in
                {"error: dao ru de wen jian ge shi bu zheng que",
                 "error: dao ru dui hua shi bai, wen jian ge shi bu zheng que"}
          /\ conversations' = conversations
          /\ settings' = settings
          /\ lsConversations' = lsConversations
          /\ lsSettings' = lsSettings]_vars

\* a rejected import while the list and the stored history are not empty
C6_Witness ==
    /\ lastCall.op = "handleFileChange"
    /\ ~WellFormedFile(lastCall.file)
    /\ ~lastCall.accepted
    /\ Len(conversations) > 0
    /\ Len(Persisted) > 0

\* C7: when the save fails with a quota error, the persisted history becomes
\* the 10 most recent messages of the list and one system message is
\* appended; when the reduced write fails too, the list and the persisted
\* value stay as they were.
C7_QuotaFallback ==
    [][(lastCall'.op = "saveEffect" /\ lastCall'.first = "QuotaExceededError") =>
          IF lastCall'.second = "ok"
          THEN /\ Persisted' = MostRecent(conversations, 10)
               /\ Len(conversations') = Len(conversations) + 1
               /\ SubSeq(conversations', 1, Len(conversations)) = conversations
               /\ conversations'[Len(conversations')].role = "system"
          ELSE /\ conversations' = conversations
               /\ lsConversations' = lsConversations]_vars

\* a fallback save that cut a longer list to 10 messages
C7_Witness ==
    /\ lastCall.op = "saveEffect"
    /\ lastCall.first = "QuotaExceededError"
    /\ lastCall.second = "ok"
    /\ Len(Persisted) = 10
    /\ Len(conversations) > 11
    /\ conversations[Len(conversations)].role = "system"

\* C8: once the save step has run without a storage failure, the persisted
\* history is the most recent min(50, n) messages of the list, for every
\* n >= 0.
C8_PersistedFollowsList ==
    (lastCall.op = "saveEffect" /\ lastCall.first \in {"ok", "none"}) =>
        Persisted = MostRecent(conversations, 50)

\* the non-ghost state of the assistant
asstState ==
    <<lsConversations, lsSettings, mounted, loading, prompt, conversations,
      settings, errorMessage, importModalVisible, savePending, inFlight,
      exportedFile, clock, lastRequest>>

\* C9: at most one integration request is in flight; while it is, the
\* loading flag is set and the prompt is blank, so that no send goes out;
\* a send with a blank prompt issues no request and changes no state.
C9_SendsSerialized ==
    /\ [](/\ Len(inFlight) <= 1
          /\ (Len(inFlight) = 1) = loading
          /\ loading => Trim(prompt) = "")
    /\ [][(lastCall'.op = "handleSend" /\ Trim(prompt) = "") =>
             /\ ~lastCall'.sent
             /\ asstState' = asstState]_vars

\* a send with a blank prompt while a request is in flight
C9_Witness ==
    /\ lastCall.op = "handleSend"
    /\ ~lastCall.sent
    /\ loading
    /\ Len(inFlight) = 1

\* C10: a failed request appends exactly one system error message directly
\* after the user message that caused it, and a transient error notice is
\* shown.
C10_FailureAppendsErrorAndNotifies ==
    lastCall.op = "rejected" =>
        /\ Len(conversations) >= 2
        /\ conversations[Len(conversations)].role = "system"
        /\ conversations[Len(conversations)].isError
        /\ conversations[Len(conversations) - 1].role = "user"
        /\ conversations[Len(conversations) - 1].timestamp = lastCall.id
        /\ lastCall.notice # "none"


\* C11: every send of the assistant is eventually followed by a state in
\* which its request has ended and the loading flag is false again, also
\* when the server never responds (the request is bounded by the timeout).
C11_EverySendEnds ==
    [](loading => <>(~loading /\ inFlight = <<>>))

\* an entry that was written no longer ago than its time-to-live
WrittenWithinTtl(e, t) == e.present /\ t - e.timestamp <= e.ttl

\* C12: a get of the wrapper with caching enabled returns the stored payload
\* without a network request if and only if an entry for the key was written
\* no longer ago than its time-to-live (5 minutes when none was given);
\* otherwise it issues the request and stores the response with the current
\* time.  A get with caching disabled neither reads nor writes the cache.
C12_CachedGetServesFreshEntries ==
    [][/\ (lastWrapper'.op = "get" /\ lastWrapper'.useCache) =>
            /\ lastWrapper'.requested = ~WrittenWithinTtl(cache[lastWrapper'.key], nowMs)
            /\ ~lastWrapper'.requested =>
                  /\ lastWrapper'.returned =
                        [null |-> FALSE, data |-> cache[lastWrapper'.key].data]
                  /\ pendingGets' = pendingGets
            /\ lastWrapper'.requested => pendingGets' # pendingGets
       /\ (lastWrapper'.op = "getResolved" /\ lastWrapper'.useCache) =>
            \E call \in pendingGets \ pendingGets' :
               cache'[lastWrapper'.key] =
                  [present |-> TRUE, data |-> server[call.url], timestamp |-> nowMs,
                   ttl |-> IF call.cacheTTL.given THEN call.cacheTTL.ms ELSE 300000]
       /\ (lastWrapper'.op \in {"get", "getResolved", "getRejected"}
             /\ ~lastWrapper'.useCache) =>
            /\ cache' = cache
            /\ lastWrapper'.op = "get" =>
                  lastWrapper'.requested /\ pendingGets' # pendingGets
      ]_vars

\* C13: after a mutating request of the wrapper has completed, no entry of
\* the affected URL prefix is left in the cache (so the next cached get of
\* that URL goes to the network).
C13_MutationsInvalidate ==
    lastWrapper.op \in {"post", "put", "del", "uploadFile"} =>
        \A k \in CacheKeys :
            StartsWith(k, "get:" \o lastWrapper.url) => ~cache[k].present

\* an entry whose time-to-live has elapsed
Expired(e, t) == e.present /\ t - e.timestamp > e.ttl

\* C14: a cached get never serves an entry whose time-to-live has elapsed,
\* and such an entry does not stay in the cache map: it is eventually
\* removed (or replaced by a newer one), whatever the callers do.
C14_ExpiredEntriesSwept ==
    /\ [][(lastWrapper'.op = "get" /\ lastWrapper'.useCache
             /\ Expired(cache[lastWrapper'.key], nowMs)) => lastWrapper'.requested]_vars
    /\ \A k \in CacheKeys : [](Expired(cache[k], nowMs) => <>~Expired(cache[k], nowMs))

\* C15: when login runs, the resolved credential map is the parsed value of
\* VITE_AUTH_CREDENTIALS if that value is present and parses as JSON, and
\* the hardcoded default map in every other case; it is always a map, and
\* validateCredentials and login return a boolean for every environment.
C15_CredentialResolution ==
    lastCall.op = "login" =>
        LET resolved == getCredentialsFromEnv(env) IN
        /\ resolved.kind = "object"
        /\ resolved.map =
              IF env.kind = "json" THEN env.map
              ELSE [admin |-> "Pa$$w0rd", user1 |-> "123456", user2 |-> "password123"]
        /\ lastCall.result \in {"true", "false"}
        /\ \A username \in Usernames, password \in Passwords :
              validateCredentials(env, username, password) \in {"true", "false"}

\* the host state that stop_service can change
hostState == <<alive, starting, portOwner, pidFile, sidecar, logs, currentLink>>

\* C16: stopping a service whose pid file names a live process sends the
\* graceful signal first, sends the forceful kill only if the process is
\* still alive after the grace wait, and removes the pid file and its
\* sidecar exactly when the process is no longer alive afterwards; if the
\* process survives, the stop reports failure and keeps both files.
\* Stopping with no pid file changes nothing and reports success.
C16_StopEscalates ==
    [][\A r \in RunIds :
        /\ (runs[r].pc = "stop" /\ runs'[r] # runs[r] /\ pidFile \in alive) =>
              /\ runs'[r].signals = <<"TERM">>
              /\ runs'[r].pc = "grace"
              /\ runs'[r].wake = sec + 2
              /\ <<pidFile, sidecar>>' = <<pidFile, sidecar>>
        /\ (runs[r].pc = "grace" /\ runs'[r] # runs[r]) =>
              /\ sec >= runs[r].wake
              /\ runs'[r].signals = IF runs[r].pid \in alive
                                    THEN <<"TERM", "KILL">> ELSE <<"TERM">>
        /\ (runs[r].pc = "final" /\ runs'[r] # runs[r]) =>
              IF runs[r].pid \in alive
              THEN /\ runs'[r].status = 1
                   /\ <<pidFile, sidecar>>' = <<pidFile, sidecar>>
              ELSE /\ runs'[r].status = 0
                   /\ pidFile' = 0
                   /\ sidecar' = 0 - 1
        /\ (runs[r].pc = "stop" /\ runs'[r] # runs[r] /\ pidFile = 0) =>
              /\ hostState' = hostState
              /\ runs'[r].status = 0
              /\ runs'[r].signals = <<>>
      ]_vars

\* a stop whose process survived both signals: it failed and kept the pid file
C16_Witness ==
    \E r \in RunIds :
        /\ runs[r].pc = "done"
        /\ runs[r].cmd = "stop"
        /\ runs[r].signals = <<"TERM", "KILL">>
        /\ runs[r].status = 1
        /\ runs[r].pid \in alive
        /\ pidFile = runs[r].pid

\* C17: every start writes a log file that no earlier run wrote to (a log
\* is never rewritten or truncated by another start, also when two starts
\* happen within the same second), and after the launch the current-log
\* link points at the file of that start.
C17_FreshLogPerStart ==
    [][/\ \A ts \in 0..MaxSec : logs[ts].exists => logs'[ts] = logs[ts]
       /\ \A r \in RunIds :
            (runs[r].pc = "launch" /\ runs'[r].pc = "confirm") =>
                /\ currentLink' = runs[r].ts
                /\ logs'[runs[r].ts] = [exists |-> TRUE, run |-> r]
      ]_vars

\* C18: the service process is launched only in a state where the port is
\* free (a process found on the port has been killed and the port checked
\* again).
C18_LaunchOnlyOnFreePort ==
    [][\A r \in RunIds :
         (runs[r].pc = "launch" /\ runs'[r].pc = "confirm") => portOwner = 0]_vars

\* C19 (as claimed): the suite runs only after the health endpoint has
\* answered; a run in which the endpoint cannot be reached exits with 1
\* without running a test; every other run exits with exactly the exit
\* status of the suite.
C19_ExitMirrorsSuite ==
    /\ runner.suiteRan => runner.endpoint = "answers" /\ runner.http \in {200, 503}
    /\ runner.pc = "exited" =>
          IF runner.endpoint = "unreachable"
          THEN runner.exit = 1 /\ ~runner.suiteRan
          ELSE runner.suiteRan /\ runner.exit = runner.testResult

\* C19 (amended): as above, and a run that cannot enter the project root,
\* or in which curl returns a failure for any other reason, also exits with
\* 1 without running a test.
C19_ExitMirrorsSuiteOrNoCheck ==
    /\ runner.suiteRan => runner.endpoint = "answers" /\ runner.http \in {200, 503}
    /\ runner.pc = "exited" =>
          IF runner.cd = 1 \/ runner.curl \in {6, 7, 28, 127}
          THEN runner.exit = 1 /\ ~runner.suiteRan
          ELSE runner.suiteRan /\ runner.exit = runner.testResult

\* a run whose suite collected no test: the script exits with 5
C19_Witness ==
    /\ runner.pc = "exited"
    /\ runner.suiteRan
    /\ runner.endpoint = "answers"
    /\ runner.testResult = 5
    /\ runner.exit = 5

\* C20: in every reachable database state every row of document_chunks is
\* owned by exactly one existing row of documents, and deleting a document
\* removes every chunk row that references it and no chunk row of another
\* document.
C20_ChunksOwnedAndCascade ==
    /\ [](\A c \in document_chunks :
             Cardinality({d \in documents : c.document_id = {d.id}}) = 1)
    /\ [][\A d \in documents \ documents' :
             /\ \A c \in document_chunks : c.document_id = {d.id} => c \notin document_chunks'
             /\ \A c \in document_chunks : c.document_id # {d.id} => c \in document_chunks'
         ]_vars

\* C21: starting from empty local storage, after any sequence of login,
\* logout and page reload (once the provider has finished loading) the keys
\* user, api_username and api_password are all present or all absent; they
\* are present exactly when a user is authenticated, api_username is then
\* the authenticated username, and logout leaves all three absent and the
\* user unauthenticated.
C21_StoredKeysFollowSession ==
    /\ (lsUser = "<absent>") = (lsApiUsername = "<absent>")
    /\ (lsUser = "<absent>") = (lsApiPassword = "<absent>")
    /\ ~authLoading =>
          /\ (user # [null |-> TRUE]) = (lsUser # "<absent>")
          /\ user # [null |-> TRUE] => lsApiUsername = user.username
    /\ lastCall.op = "logout" =>
          /\ user = [null |-> TRUE]
          /\ lsUser = "<absent>" /\ lsApiUsername = "<absent>" /\ lsApiPassword = "<absent>"

\* a logged-in user has reloaded the page and the provider has restored the
\* session from storage
C21_Witness ==
    /\ lastCall.op = "authMount"
    /\ user = [username |-> "admin"]
    /\ lsUser # "<absent>"
    /\ lsApiUsername = "admin"

\* C22: after the user has changed settings and the page is reloaded, the
\* assistant comes up with the values last set before the reload, in the
\* component state and in storage.
C22_SettingsSurviveReload ==
    [][(lastCall.op = "reload" /\ lastCall.mounted /\ ~mounted /\ mounted') =>
          /\ settings' = lastCall.settings
          /\ lsSettings' = [json |-> lastCall.settings]]_vars

\* C23: a PDF upload request carries the chunking choice and sizes the user
\* selected: with intelligent chunking off its chunk_size and overlap are the
\* current values of the two sliders, with it on it asks for intelligent
\* chunking, and the parameters bear the names the endpoint documents.
C23_UploadCarriesSelection ==
    lastUpload.sent =>
        /\ ~lastUpload.intelligent =>
              /\ lastUpload.data.chunk_size = lastUpload.chunkSize
              /\ lastUpload.data.overlap = lastUpload.overlapSize
        /\ DOMAIN lastUpload.data = {"use_intelligent_chunking", "chunk_size", "overlap"}
        /\ lastUpload.intelligent = lastUpload.data.use_intelligent_chunking

\* C24: after the logs subcommand has run for a service that has at least
\* one log file, the current-log link of the service resolves to an existing
\* log file, the most recent one; a link that was already valid is left
\* unchanged.
C24_LogsLeavesValidLink ==
    [][\A r \in {1, 2} :
          (runs[r].pc = "show_logs" /\ runs'[r].pc = "done"
              /\ \E ts \in DOMAIN logs : logs[ts].exists) =>
             /\ currentLink' # 0 - 1
             /\ linkPath' = "absolute"
             /\ logs'[currentLink'].exists
             /\ \A ts \in DOMAIN logs : logs[ts].exists => ts <= currentLink'
             /\ (currentLink # 0 - 1 /\ linkPath = "absolute" /\ logs[currentLink].exists)
                   => currentLink' = currentLink /\ linkPath' = linkPath
      ]_vars

\* C25: in the legacy client a login stores the base64 token of
\* username:password under one key and shows the application view whenever
\* the database-status endpoint reports a reachable database (HTTP 200,
\* status connected); when the endpoint is unreachable or reports a failure
\* nothing is stored and the login view stays; every authenticated call
\* sends the stored token as the Basic header, and a 401 removes it and
\* returns to the login view.
C25_LegacyLogin ==
    /\ (legacyLast.op = "login" /\ legacyLast.response.arrived
           /\ legacyLast.response.http = 200 /\ legacyLast.response.status = "connected") =>
          /\ gemini_credentials # "<absent>"
          /\ legacyView = "app"
    /\ (legacyLast.op = "login" /\ (~legacyLast.response.arrived
                                      \/ legacyLast.response.http # 200)) =>
          legacyLast.alert # "login succeeded"
    /\ (legacyLast.op = "fetchWithAuth" /\ legacyLast.sent) =>
          /\ legacyLast.authorization = "Basic " \o legacyLast.stored
          /\ legacyLast.http = 401 => gemini_credentials = "<absent>" /\ legacyView = "auth"

\* C26: login(username, password) succeeds only if username is an own key of
\* the resolved credential map and password equals the value mapped to it;
\* it fails for every username that is not a key of the map, whatever the
\* password is (a missing password and inherited names included).
C26_LoginOnlyForKnownPairs ==
    (lastCall.op = "login" /\ lastCall.result = "true") =>
        /\ getCredentialsFromEnv(env).kind = "object"
        /\ lastCall.username \in DOMAIN getCredentialsFromEnv(env).map
        /\ lastCall.password # "<undefined>"
        /\ lastCall.password = getCredentialsFromEnv(env).map[lastCall.username]

\* C27: after a storage-quota failure of the history save the notice that the
\* fallback appends does not trigger another failing save that appends a
\* further notice: the transcript never holds two quota notices in a row.
C27_OneNoticePerMessage ==
    \A i \in 1..(Len(conversations) - 1) :
        ~(/\ conversations[i].role = "system" /\ ~conversations[i].isError
          /\ conversations[i + 1].role = "system" /\ ~conversations[i + 1].isError)

\* C28: force-use-documents is on only while use-context is on, in the
\* settings of the page and in every integration request that was sent
C28_ForceOnlyWithContext ==
    /\ mounted => (settings.forceUseDocuments => settings.useContext)
    /\ \A i \in 1..Len(inFlight) :
          inFlight[i].body.force_use_documents => inFlight[i].body.use_context

\* C29: once no list request and no delete is outstanding and the list
\* request issued last was answered, the table shows the rows, the page, the
\* page size and the total of that request
C29_LatestRequestShown ==
    (/\ listRequests = <<>>
     /\ deleteRequests = <<>>
     /\ lastList.outcome = "ok")
    => /\ listRows.source = lastList.source
       /\ listRows.offset = (lastList.page - 1) * lastList.limit
       /\ listRows.limit = lastList.limit
       /\ pagination.current = lastList.page
       /\ pagination.pageSize = lastList.limit
       /\ pagination.total = listRows.total

\* C30: a step of a start that leaves the port check keeps the live process
\* that the pid file names running, and keeps the pid file
C30_StartKeepsTrackedService ==
    [][\A r \in RunIds :
         (/\ runs[r].pc = "port"
          /\ runs'[r].pc # "port"
          /\ pidFile # NoPid
          /\ pidFile \in alive)
         => (pidFile \in alive' /\ pidFile' = pidFile)]_vars

====
